---- MODULE Spec2Model ----
(***************************************************************************)
(* The lazy-evaluation and dependency-tracking engine of                   *)
(* fipy/variables/variable.py (class Variable).                            *)
(*                                                                         *)
(* Every Variable object is a node 1..n.  A node caches its value, lists   *)
(* the nodes it requires and the nodes that subscribe to it, and is        *)
(* stale or fresh.  The operations are the public methods: the             *)
(* constructor, the operator constructors, setValue, getValue, cacheMe     *)
(* and dontCacheMe.                                                        *)
(***************************************************************************)
EXTENDS Integers, Sequences, FiniteSets, TLC

VARIABLES
    n,                   \* number of Variable objects constructed so far
    cls,                 \* cls[i]: class of object i
    op,                  \* op[i]: self.op of an operator variable, "" otherwise
    opShape,             \* opShape[i]: self.opShape of an operator variable
    value,               \* value[i]: self.value, <<>> for None, <<v>> otherwise
    stale,               \* stale[i]: self.stale
    _cached,             \* _cached[i]: self._cached
    requiredVariables,   \* requiredVariables[i]: self.requiredVariables
    subscribedVariables, \* subscribedVariables[i]: self.subscribedVariables
    axisVars,            \* axisVars[i]: self.sumVar[axis], self.maxVar[axis]; 0 if unset
    held,                \* the objects the owner holds a reference to
    reclaimed,           \* the objects that have been garbage collected
    written,             \* written[i]: the value last given to i by its owner
    name,                \* name[i]: self.name
    arrays,              \* arrays[k]: the contents of array k of the owner
    alias,               \* alias[i]: the owner's array that self.value is, 0 if none
    source,              \* source[i]: what setValue last copied into i, <<>> if nothing
    pickled,             \* the last pickle the owner made, <<>> if none
    frames,              \* the loops of __markStale that have not returned yet
    marked,              \* marked[i]: times stale was set on i in this setValue
    _cacheAlways,        \* Variable._cacheAlways, of the class: FIPY_CACHE, --cache
    _cacheNever,         \* Variable._cacheNever, of the class
    mesh,                \* mesh[i]: the kind of self.mesh, "" without a mesh
    last                 \* the call that produced this state, and its result

vars == <<n, cls, op, opShape, value, stale, _cached, requiredVariables,
          subscribedVariables, axisVars, held, reclaimed, written, name,
          arrays, alias, source, pickled, frames, marked, _cacheAlways,
          _cacheNever, mesh, last>>

-----------------------------------------------------------------------------
(* Bounds of the model.                                                    *)

MaxNodes == 3
MaxArrays == 1

-----------------------------------------------------------------------------
(* Values.  A value is an array with a physical unit: its shape, its       *)
(* elements in row-major order, and the exponents of its unit in the base  *)
(* dimensions <<m, s>>.  A plain numeric array has the unit _unity.        *)

None == <<>>
Some(v) == <<v>>

_unity == <<0, 0>>

Array(shape, data, unit) == [shape |-> shape, data |-> data, unit |-> unit]

Scalar(x) == Array(<<>>, <<x>>, _unity)

RECURSIVE Prod(_)
Prod(s) == IF s = <<>> THEN 1 ELSE Head(s) * Prod(Tail(s))

Full(shape, x, unit) == Array(shape, [k \in 1..Prod(shape) |-> x], unit)

isDimensionless(unit) == unit = _unity

\* numerix.getShape of a value
getShapeOf(v) == v.shape

\* Variable._extractUnit: the unit of a PhysicalField, _unity for anything else
_extractUnit(cell) == IF cell = None THEN _unity ELSE cell[1].unit

Max(a, b) == IF a >= b THEN a ELSE b

\* shape s padded on the left with 1s to rank r
PadShape(s, r) == [d \in 1..r |-> IF d <= r - Len(s) THEN 1 ELSE s[d - (r - Len(s))]]

\* numerix._broadcastShapes: the common shape of two shapes compared
\* right-aligned, None when some pair of dimensions differs and neither is 1
_broadcastShapes(s1, s2) ==
    LET r  == Max(Len(s1), Len(s2))
        p1 == PadShape(s1, r)
        p2 == PadShape(s2, r)
    IN  IF \A d \in 1..r : p1[d] = p2[d] \/ p1[d] = 1 \/ p2[d] = 1
        THEN Some([d \in 1..r |-> IF p1[d] = 1 THEN p2[d] ELSE p1[d]])
        ELSE None

\* the number of elements one step along dimension d of shape s spans
RECURSIVE Stride(_, _)
Stride(s, d) == IF d >= Len(s) THEN 1 ELSE s[d + 1] * Stride(s, d + 1)

\* the position (from 1) in an array of shape s of the element that is
\* broadcast to position k (from 1) of an array of shape r
RECURSIVE OperandOffset(_, _, _, _)
OperandOffset(r, s, k, e) ==
    IF e > Len(s) THEN 0
    ELSE LET d   == e + (Len(r) - Len(s))
             idx == IF s[e] = 1 THEN 0 ELSE ((k - 1) \div Stride(r, d)) % r[d]
         IN  idx * Stride(s, e) + OperandOffset(r, s, k, e + 1)

OperandIndex(r, s, k) == OperandOffset(r, s, k, 1) + 1

-----------------------------------------------------------------------------
(* The operator functions (the lambdas of __add__, __sub__, __mul__,       *)
(* __neg__) applied to values, as numerix and PhysicalField apply them.    *)
(* A result is [raised, val]: an exception, or the value returned.         *)

Returned(cell) == [raised |-> FALSE, val |-> cell]
Raised == [raised |-> TRUE, val |-> None]

UnaryOps == {"neg"}
BinaryOps == {"add", "sub", "mul"}

Fn1(f, x) == -x

Fn2(f, x, y) ==
    CASE f = "add" -> x + y
      [] f = "sub" -> x - y
      [] f = "mul" -> x * y
      [] f = "rsub" -> y - x
      [] f = "mod" -> x % y

\* the unit of the result, None when the units are incompatible
Unit2(f, u1, u2) ==
    IF f = "mul" THEN Some(<<u1[1] + u2[1], u1[2] + u2[2]>>)
    ELSE IF u1 = u2 THEN Some(u1) ELSE None

\* numerix.sum and numerix.max over all the elements (axis None)
RECURSIVE SumOf(_)
SumOf(data) == IF data = <<>> THEN 0 ELSE Head(data) + SumOf(Tail(data))

RECURSIVE MaxOf(_)
MaxOf(data) ==
    IF Len(data) = 1 THEN Head(data) ELSE Max(Head(data), MaxOf(Tail(data)))

\* the reductions, over all the elements (axis None) and over axis 0
AxisOps == {"sum", "max", "sum0", "max0"}

\* op(a) for a unary operator: None is not an operand
applyUnaryFn(f, a) ==
    IF a = None THEN Raised
    ELSE IF f \in {"sum0", "max0"} /\ Len(a[1].shape) # 1
    THEN Raised
    ELSE IF f \in AxisOps
    THEN Returned(Some(Array(<<>>,
                             <<IF f \in {"sum", "sum0"} THEN SumOf(a[1].data)
                               ELSE MaxOf(a[1].data)>>,
                             a[1].unit)))
    ELSE Returned(Some(Array(a[1].shape,
                             [k \in 1..Len(a[1].data) |-> Fn1(f, a[1].data[k])],
                             a[1].unit)))

\* op(a, b) for a binary operator: elementwise on the broadcast arrays
applyBinaryFn(f, a, b) ==
    IF a = None \/ b = None THEN Raised
    ELSE LET shape == _broadcastShapes(a[1].shape, b[1].shape)
             unit  == Unit2(f, a[1].unit, b[1].unit)
         IN  IF shape = None \/ unit = None THEN Raised
             ELSE LET r == shape[1]
                  IN  Returned(Some(Array(r,
                        [k \in 1..Prod(r) |->
                            Fn2(f, a[1].data[OperandIndex(r, a[1].shape, k)],
                                   b[1].data[OperandIndex(r, b[1].shape, k)])],
                        unit[1])))

-----------------------------------------------------------------------------
(* Classes.  Variable is the base class; _Constant wraps a non-Variable    *)
(* operand; CellVariable and FaceVariable are the mesh variables.  An      *)
(* operator variable of base class B is an instance of B.                  *)

LeafClasses == {"Variable", "CellVariable", "FaceVariable"}

\* isinstance(object of class c, base)
IsInstance(c, base) ==
    \/ c = base
    \/ base = "Variable"
    \/ c = "DistanceVariable" /\ base = "CellVariable"

\* _getArithmeticBaseClass(other=None): Variable, unless a mesh variable
\* class overrides it to name itself
ArithmeticBaseClassOf(c) ==
    IF c \in {"CellVariable", "FaceVariable"} THEN c
    ELSE IF c = "DistanceVariable" THEN "CellVariable"
    ELSE "Variable"

-----------------------------------------------------------------------------
(* The state an operation works on.  The methods below take the store and  *)
(* return the store they leave; calls[i] and calcs[i] count the getValue   *)
(* and _calcValue calls on node i made by the operation in progress.       *)

Nodes == 1..n

\* the dictionaries _axisOperator keeps on a variable, and their keys
AxisOpNames == {"sumVar", "maxVar"}
Axes == {None, Some(0)}
NoAxisVars == [o \in AxisOpNames |-> [axis \in Axes |-> 0]]

RECURSIVE Zeros(_)
Zeros(k) == IF k = 0 THEN <<>> ELSE Append(Zeros(k - 1), 0)

Store ==
    [cls                 |-> cls,
     op                  |-> op,
     opShape             |-> opShape,
     value               |-> value,
     stale               |-> stale,
     cached              |-> _cached,
     requiredVariables   |-> requiredVariables,
     subscribedVariables |-> subscribedVariables,
     axisVars            |-> axisVars,
     reclaimed           |-> reclaimed,
     written             |-> written,
     name                |-> name,
     arrays              |-> arrays,
     alias               |-> alias,
     source              |-> source,
     pickled             |-> pickled,
     mesh                |-> mesh,
     calls               |-> Zeros(n),
     calcs               |-> Zeros(n)]

IsOperator(st, i) == st.op[i] # ""

\* _isCached that looks at the variable's own flag only
_isCached_ownFlag(st, i) == st.cached[i]

_isCached(st, i) == _cacheAlways \/ (st.cached[i] /\ ~_cacheNever)

\* sub() is not None: the weak reference still resolves
Resolves(st, j) == j \notin st.reclaimed

\* getSubscribedVariables that returns the list as it is
getSubscribedVariables_unfiltered(st, i) == st.subscribedVariables[i]

\* getSubscribedVariables: the weak references that still resolve; the list
\* itself is replaced by the filtered one
getSubscribedVariables(st, i) ==
    LET alive(j) == Resolves(st, j)
    IN  SelectSeq(st.subscribedVariables[i], alive)

RECURSIVE __markStale(_, _)
RECURSIVE _markStale(_, _)
RECURSIVE MarkSubscribers(_, _, _)

\* the loop of __markStale over the subscribers, from position k
MarkSubscribers(st, subs, k) ==
    IF k > Len(subs) THEN st
    ELSE MarkSubscribers(IF Resolves(st, subs[k]) THEN _markStale(st, subs[k]) ELSE st,
                         subs, k + 1)

__markStale(st, i) ==
    LET subs == getSubscribedVariables(st, i)
    IN  MarkSubscribers([st EXCEPT !.subscribedVariables[i] = subs], subs, 1)

_markStale(st, i) ==
    IF st.stale[i] = 0
    THEN __markStale([st EXCEPT !.stale[i] = 1], i)
    ELSE st

\* _markFresh that clears the flag and tells no subscriber
_markFresh_silent(st, i) == [st EXCEPT !.stale[i] = 0]

_markFresh(st, i) == __markStale([st EXCEPT !.stale[i] = 0], i)

\* _makeValue that makes an array of what it is given, whatever the
\* Variable holds
_makeValue_asGiven(cur, val, isNumber) == val

\* _makeValue: a Python number given to a Variable that holds a non-scalar
\* array is resized to that array's shape; anything else becomes an array;
\* None stays None
_makeValue(cur, val, isNumber) ==
    IF val = None THEN None
    ELSE IF isNumber /\ cur # None /\ cur[1].shape # <<>>
         THEN Some(Full(cur[1].shape, val[1].data[1], val[1].unit))
         ELSE val

\* _setValue that marks the variable fresh as setValue does
_setValue_fresh(st, i, val, isNumber) ==
    _markFresh([st EXCEPT !.value[i] = _makeValue(st.value[i], val, isNumber)], i)

\* _setValue(value): self.value = self._makeValue(value), nothing else
_setValue(st, i, val, isNumber) ==
    [st EXCEPT !.value[i] = _makeValue(st.value[i], val, isNumber)]

\* _setNumericValue(value): a PhysicalField keeps its unit and takes the
\* number; anything else is replaced by what is given
_setNumericValue(st, i, val) ==
    LET cur == st.value[i]
    IN  IF cur # None /\ ~isDimensionless(cur[1].unit)
        THEN [st EXCEPT !.value[i] = Some([val EXCEPT !.unit = cur[1].unit])]
        ELSE [st EXCEPT !.value[i] = Some(val)]

RECURSIVE getValue(_, _)
RECURSIVE _calcValue(_, _)
RECURSIVE EvaluateOperands(_, _, _, _)

\* evaluate the operands of node i in order, from position k; acc holds the
\* values so far.  An operand that raises ends the evaluation.
EvaluateOperands(st, i, k, acc) ==
    IF k > Len(st.requiredVariables[i])
    THEN [st |-> st, raised |-> FALSE, vals |-> acc]
    ELSE LET r == getValue(st, st.requiredVariables[i][k])
         IN  IF r.ret.raised
             THEN [st |-> r.st, raised |-> TRUE, vals |-> acc]
             ELSE EvaluateOperands(r.st, i, k + 1, Append(acc, r.ret.val))

\* _calcValue of an operator variable: the operator applied to the values
\* its operands return
OperatorVariable_calcValue(st, i) ==
    LET e == EvaluateOperands(st, i, 1, <<>>)
    IN  IF e.raised THEN [st |-> e.st, ret |-> Raised]
        ELSE [st  |-> e.st,
              ret |-> IF Len(e.vals) = 1
                      THEN applyUnaryFn(st.op[i], e.vals[1])
                      ELSE applyBinaryFn(st.op[i], e.vals[1], e.vals[2])]

\* Variable._calcValue returns self.value
_calcValue(st, i) ==
    LET st1 == [st EXCEPT !.calcs[i] = @ + 1]
    IN  IF IsOperator(st, i)
        THEN OperatorVariable_calcValue(st1, i)
        ELSE [st |-> st1, ret |-> Returned(st1.value[i])]

\* getValue that marks the variable fresh when _calcValue raises
getValue_failureFresh(st, i) ==
    LET st0 == [st EXCEPT !.calls[i] = @ + 1]
    IN  IF st0.stale[i] = 1 \/ ~_isCached(st0, i) \/ st0.value[i] = None
        THEN LET c == _calcValue(st0, i)
             IN  IF c.ret.raised THEN [st |-> _markFresh(c.st, i), ret |-> c.ret]
                 ELSE [st  |-> _markFresh(_setValue(c.st, i,
                                   IF _isCached(st0, i) THEN c.ret.val ELSE None,
                                   FALSE), i),
                       ret |-> c.ret]
        ELSE [st |-> st0, ret |-> Returned(st0.value[i])]

\* getValue that recomputes only a stale or empty variable
getValue_freshIsCached(st, i) ==
    LET st0 == [st EXCEPT !.calls[i] = @ + 1]
    IN  IF st0.stale[i] = 1 \/ st0.value[i] = None
        THEN LET c == _calcValue(st0, i)
             IN  IF c.ret.raised THEN c
                 ELSE [st  |-> _markFresh(_setValue(c.st, i,
                                   IF _isCached(st0, i) THEN c.ret.val ELSE None,
                                   FALSE), i),
                       ret |-> c.ret]
        ELSE [st |-> st0, ret |-> Returned(st0.value[i])]

\* getValue that recomputes whether or not the variable holds a fresh value
getValue_alwaysRecomputes(st, i) ==
    LET st0 == [st EXCEPT !.calls[i] = @ + 1]
        c   == _calcValue(st0, i)
    IN  IF c.ret.raised THEN c
        ELSE [st  |-> _markFresh(IF _isCached(c.st, i)
                                 THEN _setValue(c.st, i, c.ret.val, FALSE)
                                 ELSE [c.st EXCEPT !.value[i] = None], i),
              ret |-> c.ret]

\* getValue that keeps the computed value also when the variable is not cached
getValue_storesAlways(st, i) ==
    LET st0 == [st EXCEPT !.calls[i] = @ + 1]
    IN  IF st0.stale[i] = 1 \/ ~_isCached(st0, i) \/ st0.value[i] = None
        THEN LET c == _calcValue(st0, i)
             IN  IF c.ret.raised THEN c
                 ELSE [st  |-> _markFresh(_setValue(c.st, i, c.ret.val, FALSE), i),
                       ret |-> c.ret]
        ELSE [st |-> st0, ret |-> Returned(st0.value[i])]

getValue(st, i) ==
    LET st0 == [st EXCEPT !.calls[i] = @ + 1]
    IN  IF st0.stale[i] = 1 \/ ~_isCached(st0, i) \/ st0.value[i] = None
        THEN LET c == _calcValue(st0, i)
             IN  IF c.ret.raised THEN c
                 ELSE [st  |-> _markFresh(
                                 _setValue(c.st, i,
                                           IF _isCached(st0, i) THEN c.ret.val ELSE None,
                                           FALSE), i),
                       ret |-> c.ret]
        ELSE [st |-> st0, ret |-> Returned(st0.value[i])]

\* an operator variable answers getUnit from its operator, without
\* evaluating itself
OperatorVariable_getUnit(st, i) == st

\* Variable.getUnit evaluates the variable for the unit of its value
getUnit(st, i) ==
    IF IsOperator(st, i) THEN OperatorVariable_getUnit(st, i)
    ELSE getValue(st, i).st

\* an operator variable has the shape it was declared with
OperatorVariable_getShape(st, i) == st.opShape[i]

\* getShape: the shape of the stored value, () when there is none
getShape(st, i) ==
    IF IsOperator(st, i) THEN OperatorVariable_getShape(st, i)
    ELSE IF st.value[i] # None THEN getShapeOf(st.value[i][1]) ELSE <<>>

-----------------------------------------------------------------------------
(* Construction.                                                          *)

\* Variable.__init__(value, cached): no edges, the value as given, fresh
Variable__init__(st, c, val, cached) ==
    LET i   == Len(st.stale) + 1
        st1 == [cls                 |-> Append(st.cls, c),
                op                  |-> Append(st.op, ""),
                opShape             |-> Append(st.opShape, <<>>),
                value               |-> Append(st.value, None),
                stale               |-> Append(st.stale, 1),
                cached              |-> Append(st.cached, cached),
                requiredVariables   |-> Append(st.requiredVariables, <<>>),
                subscribedVariables |-> Append(st.subscribedVariables, <<>>),
                axisVars            |-> Append(st.axisVars, NoAxisVars),
                reclaimed           |-> st.reclaimed,
                written             |-> Append(st.written, val),
                name                |-> Append(st.name, ""),
                arrays              |-> st.arrays,
                alias               |-> Append(st.alias, 0),
                source              |-> Append(st.source, <<>>),
                pickled             |-> st.pickled,
                mesh                |-> Append(st.mesh, ""),
                calls               |-> Append(st.calls, 0),
                calcs               |-> Append(st.calcs, 0)]
    IN  _markFresh(_setValue(st1, i, val, FALSE), i)

\* the meshes a DistanceVariable is built on: hasattr(mesh, attr)
MeshKinds == {"Grid1D", "Grid2D", "Grid3D", "GapFillMesh", "Tri2D"}

hasattr(m, attr) ==
    CASE attr = "nx"       -> m \in {"Grid1D", "Grid2D", "Grid3D"}
      [] attr = "ny"       -> m \in {"Grid2D", "Grid3D"}
      [] attr = "nz"       -> m = "Grid3D"
      [] attr = "fineMesh" -> m = "GapFillMesh"
      [] OTHER             -> FALSE

\* DistanceVariable.__init__(mesh, value): CellVariable.__init__, then
\* self._markStale()
DistanceVariable__init__(st, m, val) ==
    LET i   == Len(st.stale) + 1
        st1 == [Variable__init__(st, "DistanceVariable", val, TRUE)
                    EXCEPT !.mesh[i] = m]
    IN  _markStale(st1, i)

\* calcDistanceFunction(): raises for a mesh with nz and for a mesh with none
\* of ny, nx, fineMesh; otherwise stores the distance d that the level set
\* library computed, then self._markFresh()
calcDistanceFunction(st, i, d) ==
    IF hasattr(st.mesh[i], "nz") THEN [st |-> st, ret |-> Raised]
    ELSE IF \/ hasattr(st.mesh[i], "ny")
            \/ hasattr(st.mesh[i], "nx")
            \/ hasattr(st.mesh[i], "fineMesh")
         THEN [st  |-> _markFresh([st EXCEPT !.value[i] = Some(d),
                                             !.written[i] = Some(d)], i),
               ret |-> Returned(None)]
         ELSE [st |-> st, ret |-> Raised]

\* _requiredBy: var keeps a weak reference to its new subscriber
_requiredBy(st, var, self) ==
    [st EXCEPT !.subscribedVariables[var] = Append(@, self)]

\* _requires that leaves out the weak back edge
_requires_noBackEdge(st, self, var) ==
    _markStale([st EXCEPT !.requiredVariables[self] = Append(@, var)], self)

\* _requires that makes var require self as well
_requires_mutual(st, self, var) ==
    _markStale(_requiredBy(
                   [st EXCEPT !.requiredVariables[self] = Append(@, var),
                              !.requiredVariables[var] = Append(@, self)],
                   var, self),
               self)

\* _requires that leaves the stale flag of self as it is
_requires_unmarked(st, self, var) ==
    _requiredBy([st EXCEPT !.requiredVariables[self] = Append(@, var)], var, self)

\* _requires: the edge self -> var, its weak back edge, and self is stale
_requires(st, self, var) ==
    _markStale(_requiredBy([st EXCEPT !.requiredVariables[self] = Append(@, var)],
                           var, self),
               self)

RECURSIVE RequireAll(_, _, _, _)
RequireAll(st, self, operands, k) ==
    IF k > Len(operands) THEN st
    ELSE RequireAll(_requires(st, self, operands[k]), self, operands, k + 1)

\* the constructor of an operator variable of base class c: a Variable with
\* no value that requires each of its operands, in order
OperatorVariable__init__(st, c, f, operands, shape) ==
    LET i   == Len(st.stale) + 1
        st1 == Variable__init__(st, c, None, TRUE)
        st2 == [st1 EXCEPT !.op[i] = f, !.opShape[i] = shape]
    IN  RequireAll(st2, i, operands, 1)

\* _broadcastShape that takes the shape of self without comparing
_broadcastShape_unchecked(st, self, other) == Some(getShape(st, self))

\* _broadcastShape(other): the broadcast of the two shapes, None if none
_broadcastShape(st, self, other) ==
    _broadcastShapes(getShape(st, self), getShape(st, other))

\* _getArithmeticBaseClass that combines any two classes
_getArithmeticBaseClass_anyClass(st, self, other) ==
    IF _broadcastShape(st, self, other) # None
    THEN Some(ArithmeticBaseClassOf(st.cls[self]))
    ELSE None

\* _getArithmeticBaseClass(other): the base class of the result of an
\* operation on self and other, None when they do not combine
_getArithmeticBaseClass(st, self, other) ==
    IF _broadcastShape(st, self, other) # None
    THEN IF \/ IsInstance(st.cls[self], ArithmeticBaseClassOf(st.cls[other]))
            \/ st.cls[other] = "_Constant"
         THEN Some(ArithmeticBaseClassOf(st.cls[self]))
         ELSE None
    ELSE None

\* _shapeClassAndOther: the shape and the base class of the result
_shapeClassAndOther(st, self, shape, operatorClass, other) ==
    [baseClass |-> IF operatorClass # None THEN operatorClass
                   ELSE _getArithmeticBaseClass(st, self, other),
     opShape   |-> IF shape = None THEN _broadcastShape(st, self, other) ELSE shape]

\* _getVariableClass: the class an operator variable on self derives from
_getVariableClass(c) == ArithmeticBaseClassOf(c)

\* _UnaryOperatorVariable(op, opShape): [st, node]
_UnaryOperatorVariable(st, self, f, shape) ==
    LET s   == IF shape = None THEN getShape(st, self) ELSE shape[1]
        st1 == getUnit(st, self)
    IN  [st   |-> OperatorVariable__init__(st1, _getVariableClass(st.cls[self]),
                                           f, <<self>>, s),
         node |-> Len(st.stale) + 1]

\* _BinaryOperatorVariable that returns NotImplemented for a sum or a
\* difference of two variables whose values have different units
_BinaryOperatorVariable_unitChecked(st, self, f, other, operatorClass, shape) ==
    LET st0 == IF other.node = 0
               THEN Variable__init__(st, "_Constant", other.val, TRUE)
               ELSE st
        o   == IF other.node = 0 THEN Len(st.stale) + 1 ELSE other.node
        sc  == IF shape = None \/ operatorClass = None
               THEN _shapeClassAndOther(st0, self, shape, operatorClass, o)
               ELSE [baseClass |-> None, opShape |-> shape]
    IN  IF \/ sc.opShape = None
           \/ (operatorClass = None /\ sc.baseClass = None)
           \/ (/\ f \in {"add", "sub"}
               /\ _extractUnit(st0.written[self]) # _extractUnit(st0.written[o]))
        THEN [st |-> st, node |-> 0]
        ELSE LET st1 == getUnit(st0, self)
                 st2 == getUnit(st1, o)
                 c   == IF operatorClass # None THEN operatorClass[1]
                        ELSE sc.baseClass[1]
             IN  [st   |-> OperatorVariable__init__(st2, c, f, <<self, o>>,
                                                    sc.opShape[1]),
                  node |-> Len(st0.stale) + 1]

\* _BinaryOperatorVariable(op, other, operatorClass, opShape): [st, node],
\* node 0 for NotImplemented.  other is [node, val]: a Variable (node > 0),
\* or any other value, which is wrapped in a _Constant first.  A wrapper
\* made for an operation that returns NotImplemented is unreferenced.
_BinaryOperatorVariable(st, self, f, other, operatorClass, shape) ==
    LET st0 == IF other.node = 0
               THEN Variable__init__(st, "_Constant", other.val, TRUE)
               ELSE st
        o   == IF other.node = 0 THEN Len(st.stale) + 1 ELSE other.node
        sc  == IF shape = None \/ operatorClass = None
               THEN _shapeClassAndOther(st0, self, shape, operatorClass, o)
               ELSE [baseClass |-> None, opShape |-> shape]
    IN  IF sc.opShape = None \/ (operatorClass = None /\ sc.baseClass = None)
        THEN [st |-> st, node |-> 0]
        ELSE LET st1 == getUnit(st0, self)
                 st2 == getUnit(st1, o)
                 c   == IF operatorClass # None THEN operatorClass[1]
                        ELSE sc.baseClass[1]
             IN  [st   |-> OperatorVariable__init__(st2, c, f, <<self, o>>,
                                                    sc.opShape[1]),
                  node |-> Len(st0.stale) + 1]

\* reflected methods that apply the function of the method they reflect
Reflected_unswapped(f) == IF f \in {"add", "mul", "sub"} THEN f ELSE ""

\* the function of the reflected method __r<f>__, "" when Variable defines
\* none: __radd__ = __add__, __rmul__ = __mul__, __rsub__ is b - a, and
\* there is no __rmod__
Reflected(f) ==
    CASE f = "add" -> "add"
      [] f = "mul" -> "mul"
      [] f = "sub" -> "rsub"
      [] OTHER -> ""

\* the expression v <f> w on two Variables: v.__<f>__(w), and when that
\* returns NotImplemented, w.__r<f>__(v); node 0 when neither gives a
\* result (TypeError)
BinaryOp(st, v, f, w) ==
    LET r == _BinaryOperatorVariable(st, v, f, [node |-> w, val |-> None], None, None)
    IN  IF r.node # 0 \/ Reflected(f) = "" THEN r
        ELSE _BinaryOperatorVariable(st, w, Reflected(f), [node |-> v, val |-> None],
                                     None, None)

\* the operator of sum(axis) and of max(axis)
AxisFn(opname, axis) ==
    IF axis = None THEN (IF opname = "sumVar" THEN "sum" ELSE "max")
    ELSE (IF opname = "sumVar" THEN "sum0" ELSE "max0")

\* _axisOperator(opname, op, axis=None): the operator variable kept in the
\* dictionary self.<opname>, made on the first call: [st, node]
_axisOperator(st, self, opname, axis) ==
    IF st.axisVars[self][opname][axis] # 0
    THEN [st |-> st, node |-> st.axisVars[self][opname][axis]]
    ELSE LET s     == getShape(st, self)
             shape == IF axis = None THEN <<>>
                      ELSE SubSeq(s, 1, axis[1]) \o SubSeq(s, axis[1] + 2, Len(s))
             r     == _UnaryOperatorVariable(st, self, AxisFn(opname, axis),
                                             Some(shape))
         IN  [st   |-> [r.st EXCEPT !.axisVars[self][opname][axis] = r.node],
              node |-> r.node]

\* setValue(value): a copy of the value is stored, and the variable is fresh
setValue(st, i, val, isNumber) ==
    LET st1 == _setValue(st, i, val, isNumber)
    IN  _markFresh([st1 EXCEPT !.written[i] = st1.value[i],
                               !.alias[i] = 0, !.source[i] = <<>>], i)

\* tmp = numerix.zeros(getShape(where)); tmp[:] = value: the value broadcast
\* to the shape of the mask, None when it does not fit that shape
FillLike(where, val) ==
    IF _broadcastShapes(where.shape, val.shape) = Some(where.shape)
    THEN Some(Array(where.shape,
                    [k \in 1..Prod(where.shape) |->
                        val.data[OperandIndex(where.shape, val.shape, k)]],
                    _unity))
    ELSE None

\* numerix.where(where, tmp, cur): elementwise on the broadcast arrays, None
\* when the shapes do not broadcast
WhereFn(where, tmp, cur) ==
    LET shape == _broadcastShapes(where.shape, cur.shape)
    IN  IF shape = None THEN None
        ELSE LET r == shape[1]
             IN  Some(Array(r,
                     [k \in 1..Prod(r) |->
                         IF where.data[OperandIndex(r, where.shape, k)] # 0
                         THEN tmp.data[OperandIndex(r, tmp.shape, k)]
                         ELSE cur.data[OperandIndex(r, cur.shape, k)]],
                     cur.unit))

\* setValue that stores the elements the mask leaves out
setValue_where_inverted(st, i, val, where) ==
    LET tmp == FillLike(where, val)
    IN  IF tmp = None THEN [st |-> st, raised |-> TRUE]
        ELSE LET g == getValue(st, i)
             IN  IF g.ret.raised \/ g.ret.val = None
                 THEN [st |-> g.st, raised |-> TRUE]
                 ELSE LET w == WhereFn(where, g.ret.val[1], tmp[1])
                      IN  IF w = None THEN [st |-> g.st, raised |-> TRUE]
                          ELSE LET st1 == _setValue(g.st, i, w, FALSE)
                               IN  [st     |-> _markFresh([st1 EXCEPT !.written[i] =
                                                               st1.value[i],
                                                               !.alias[i] = 0,
                                                               !.source[i] = <<>>], i),
                                    raised |-> FALSE]

\* setValue(value, where=where): [st, raised]
setValue_where(st, i, val, where) ==
    LET tmp == FillLike(where, val)
    IN  IF tmp = None THEN [st |-> st, raised |-> TRUE]
        ELSE LET g == getValue(st, i)
             IN  IF g.ret.raised \/ g.ret.val = None
                 THEN [st |-> g.st, raised |-> TRUE]
                 ELSE LET w == WhereFn(where, tmp[1], g.ret.val[1])
                      IN  IF w = None THEN [st |-> g.st, raised |-> TRUE]
                          ELSE LET st1 == _setValue(g.st, i, w, FALSE)
                               IN  [st     |-> _markFresh([st1 EXCEPT !.written[i] =
                                                               st1.value[i],
                                                               !.alias[i] = 0,
                                                               !.source[i] = <<>>], i),
                                    raised |-> FALSE]

\* value.copy() of array object k: a new object, no array of the owner
ArrayCopy(k) == 0

\* setValue(value) that stores the array it is given
setValue_array_shared(st, i, k) ==
    LET st1 == _setValue(st, i, Some(st.arrays[k]), FALSE)
    IN  _markFresh([st1 EXCEPT !.written[i] = st1.value[i],
                               !.alias[i] = k,
                               !.source[i] = <<"array", k>>], i)

\* setValue(value) with an array of the owner: tmp = value.copy()
setValue_array(st, i, k) ==
    LET st1 == _setValue(st, i, Some(st.arrays[k]), FALSE)
    IN  _markFresh([st1 EXCEPT !.written[i] = st1.value[i],
                               !.alias[i] = ArrayCopy(k),
                               !.source[i] = <<"array", k>>], i)

\* Variable(value=array k of the owner): _makeValue keeps an array as it is
Variable__init__array(st, c, k) ==
    LET st1 == Variable__init__(st, c, Some(st.arrays[k]), TRUE)
    IN  [st1 EXCEPT !.alias[Len(st1.stale)] = k]

\* the array object that is the value of i gets x at position idx; every
\* holder of the object sees it
StoreInPlace(st, i, idx, x) ==
    LET new == [st.value[i][1] EXCEPT !.data[idx] = x]
        k   == st.alias[i]
    IN  IF k = 0 THEN [st EXCEPT !.value[i] = Some(new)]
        ELSE [st EXCEPT !.arrays[k] = new,
                        !.value = [j \in DOMAIN st.value |->
                                      IF st.alias[j] = k /\ st.value[j] # None
                                      THEN Some(new) ELSE st.value[j]],
                        !.written = [j \in DOMAIN st.value |->
                                        IF st.alias[j] = k /\ st.value[j] # None
                                        THEN Some(new) ELSE st.written[j]]]

\* the owner's array[idx] = x
ArrayStore(st, k, idx, x) ==
    LET new == [st.arrays[k] EXCEPT !.data[idx] = x]
    IN  [st EXCEPT !.arrays[k] = new,
                   !.value = [j \in DOMAIN st.value |->
                                 IF st.alias[j] = k /\ st.value[j] # None
                                 THEN Some(new) ELSE st.value[j]],
                   !.written = [j \in DOMAIN st.value |->
                                   IF st.alias[j] = k /\ st.value[j] # None
                                   THEN Some(new) ELSE st.written[j]]]

\* self[idx] = x: [st, raised]
__setitem__(st, i, idx, x) ==
    LET st1 == IF st.value[i] = None THEN getValue(st, i).st ELSE st
    IN  IF st1.value[i] = None \/ idx \notin 1..Prod(st1.value[i][1].shape)
        THEN [st |-> st1, raised |-> TRUE]
        ELSE LET st2 == StoreInPlace(st1, i, idx, x)
             IN  [st     |-> _markFresh([st2 EXCEPT !.written[i] = st2.value[i]], i),
                  raised |-> FALSE]

\* self.put(idx, x): numerix.put on the object getValue returns: [st, raised]
put(st, i, idx, x) ==
    LET g == getValue(st, i)
    IN  IF g.ret.raised THEN [st |-> g.st, raised |-> TRUE]
        ELSE IF g.ret.val = None \/ idx \notin 1..Prod(g.ret.val[1].shape)
        THEN [st |-> g.st, raised |-> TRUE]
        ELSE LET st2 == IF g.st.value[i] = None THEN g.st
                        ELSE StoreInPlace(g.st, i, idx, x)
             IN  [st     |-> _markFresh([st2 EXCEPT !.written[i] = st2.value[i]], i),
                  raised |-> FALSE]

\* _copyValue: getValue().copy(): [st, ret]
_copyValue(st, i) == getValue(st, i)

\* copy that takes the value of the original without copying it
copy_shared(st, i) ==
    LET c == getValue(st, i)
    IN  IF c.ret.raised THEN [st |-> c.st, node |-> 0]
        ELSE LET st1 == Variable__init__(c.st, _getVariableClass(st.cls[i]),
                                         c.ret.val, TRUE)
                 k   == Len(st1.stale)
             IN  [st   |-> [st1 EXCEPT !.name[k] = st.name[i],
                                       !.alias[k] = st.alias[i],
                                       !.source[k] = <<"copy", i>>],
                  node |-> k]

\* copy(): self._getVariableClass()(value=self): [st, node], node 0 when it
\* raises.  __init__ takes value._copyValue() and the name of the original.
copy(st, i) ==
    LET c == _copyValue(st, i)
    IN  IF c.ret.raised THEN [st |-> c.st, node |-> 0]
        ELSE LET st1 == Variable__init__(c.st, _getVariableClass(st.cls[i]),
                                         c.ret.val, TRUE)
                 k   == Len(st1.stale)
             IN  [st   |-> [st1 EXCEPT !.name[k] = st.name[i],
                                       !.alias[k] = ArrayCopy(st.alias[i]),
                                       !.source[k] = <<"copy", i>>],
                  node |-> k]

\* self._setValue(value=tmp); self._markFresh() with the value numerix.array
\* made of the copy, g what the copy's getValue returned: [st, raised]
setValue_evaluated(g, i, j) ==
    [st     |-> _markFresh([g.st EXCEPT !.value[i] = _makeValue(@, g.ret.val, FALSE),
                                        !.written[i] = _makeValue(g.st.value[i],
                                                                  g.ret.val, FALSE),
                                        !.alias[i] = 0,
                                        !.source[i] = <<"node", j>>], i),
     raised |-> FALSE]

\* the rest of setValue once tmp = value.copy() has returned c
setValue_copied(c, i, j) ==
    IF c.node = 0 THEN [st |-> c.st, raised |-> TRUE]
    ELSE setValue_evaluated(getValue(c.st, c.node), i, j)

\* setValue(value) with another Variable: tmp = value.copy(), and _makeValue
\* takes numerix.array(tmp): [st, raised]
setValue_variable(st, i, j) == setValue_copied(copy(st, j), i, j)

\* setName(name)
setName(st, i, nm) == [st EXCEPT !.name[i] = nm]

\* __getstate__: the dictionary that is pickled: [st, raised, state]
__getstate__(st, i) ==
    LET g == getValue(st, i)
    IN  IF g.ret.raised THEN [st |-> g.st, raised |-> TRUE, state |-> None]
        ELSE LET u == IF IsOperator(st, i)
                      THEN [st |-> getUnit(g.st, i), ret |-> g.ret]
                      ELSE getValue(g.st, i)
             IN  [st     |-> u.st,
                  raised |-> FALSE,
                  state  |-> Some([value |-> g.ret.val,
                                   unit  |-> _extractUnit(u.ret.val),
                                   array |-> None,
                                   name  |-> st.name[i]])]

\* pickle.dumps(i): the class to construct and the state; an operator
\* variable is pickled as the class it derives from: [st, raised, pickle]
dumps(st, i) ==
    LET g == __getstate__(st, i)
    IN  IF g.raised THEN [st |-> g.st, raised |-> TRUE, pickle |-> None]
        ELSE [st     |-> g.st,
              raised |-> FALSE,
              pickle |-> Some([cls   |-> IF IsOperator(st, i)
                                         THEN _getVariableClass(st.cls[i])
                                         ELSE st.cls[i],
                               state |-> g.state[1]])]

\* _makeValue(value, unit): a PhysicalField keeps its own unit, an array
\* takes the unit given
_makeValueUnit(val, unit) ==
    IF val = None THEN None
    ELSE IF ~isDimensionless(val[1].unit) THEN val
    ELSE Some([val[1] EXCEPT !.unit = unit])

\* __setstate__ that leaves the name out
__setstate__unnamed(st, c, dict) ==
    Variable__init__(st, c, _makeValueUnit(dict.value, dict.unit), TRUE)

\* __setstate__(dict): self.__init__(**dict) on a new object of class c
__setstate__(st, c, dict) ==
    LET st1 == Variable__init__(st, c, _makeValueUnit(dict.value, dict.unit), TRUE)
    IN  [st1 EXCEPT !.name[Len(st1.stale)] = dict.name]

\* cacheMe(recursive)
RECURSIVE cacheMe(_, _, _)
RECURSIVE CacheOperands(_, _, _)
CacheOperands(st, i, k) ==
    IF k > Len(st.requiredVariables[i]) THEN st
    ELSE CacheOperands(cacheMe(st, st.requiredVariables[i][k], TRUE), i, k + 1)

cacheMe(st, i, recursive) ==
    LET st1 == [st EXCEPT !.cached[i] = TRUE]
    IN  IF recursive THEN CacheOperands(st1, i, 1) ELSE st1

\* dontCacheMe(recursive): the operands are told with recursive=False
RECURSIVE dontCacheMe(_, _, _)
RECURSIVE DontCacheOperands(_, _, _)
DontCacheOperands(st, i, k) ==
    IF k > Len(st.requiredVariables[i]) THEN st
    ELSE DontCacheOperands(dontCacheMe(st, st.requiredVariables[i][k], FALSE), i, k + 1)

dontCacheMe(st, i, recursive) ==
    LET st1 == [st EXCEPT !.cached[i] = FALSE]
    IN  IF recursive THEN DontCacheOperands(st1, i, 1) ELSE st1

-----------------------------------------------------------------------------
(* The operations.  Each is one call by the owner of the variables; last   *)
(* records the call, the node it returned (0 for NotImplemented), its      *)
(* operands, the opShape it was given, what getValue returned, whether the *)
(* node was stale when getValue was called, and the calls it made.         *)

CommitStore(st) ==
    /\ n' = Len(st.stale)
    /\ cls' = st.cls
    /\ op' = st.op
    /\ opShape' = st.opShape
    /\ value' = st.value
    /\ stale' = st.stale
    /\ _cached' = st.cached
    /\ requiredVariables' = st.requiredVariables
    /\ subscribedVariables' = st.subscribedVariables
    /\ axisVars' = st.axisVars
    /\ reclaimed' = st.reclaimed
    /\ written' = st.written
    /\ name' = st.name
    /\ arrays' = st.arrays
    /\ alias' = st.alias
    /\ source' = st.source
    /\ pickled' = st.pickled
    /\ mesh' = st.mesh
    /\ UNCHANGED <<_cacheAlways, _cacheNever>>

\* the state after a call that has returned: no loop is left running
Commit(st) == CommitStore(st) /\ UNCHANGED <<frames, marked>>

\* requiredVariables that held weak references like subscribedVariables
StrongRefs_weakOperands(i) ==
    {axisVars[i][o][axis] : o \in AxisOpNames, axis \in Axes} \ {0}

\* the objects object i holds a strong reference to: its operands, and the
\* operator variables its _axisOperator dictionaries keep
StrongRefs(i) ==
    {requiredVariables[i][k] : k \in 1..Len(requiredVariables[i])}
        \cup ({axisVars[i][o][axis] : o \in AxisOpNames, axis \in Axes} \ {0})

\* the objects that can be reached from S through strong references
RECURSIVE ReachableFrom(_)
ReachableFrom(S) ==
    LET T == S \cup UNION {StrongRefs(i) : i \in S}
    IN  IF T = S THEN S ELSE ReachableFrom(T)

\* the variables whose __markStale is running: the call stack refers to them
Running == {frames[k].node : k \in 1..Len(frames)}

\* the objects the owner, or a call in progress, can reach: only these can
\* be called, and only the others can be garbage collected
Alive == ReachableFrom(held \cup Running)

Usable(i) == i \in Nodes /\ i \in Alive

\* the owner keeps the object a call returned
Keep(node) == held' = IF node = 0 THEN held ELSE held \cup {node}

Call(called, node, args, ret, st) ==
    [op       |-> called,
     node     |-> node,
     args     |-> args,
     ret      |-> ret,
     shape    |-> None,
     wasStale |-> IF called = "getValue" THEN stale[node] ELSE 0,
     calls    |-> st.calls,
     calcs    |-> st.calcs,
     before   |-> IF last.before = None THEN None ELSE Some(<<last.op, last.node>>)]

NoCall == [op |-> "", node |-> 0, args |-> <<>>, ret |-> Returned(None),
           shape |-> None, wasStale |-> 0, calls |-> <<>>, calcs |-> <<>>,
           before |-> None]

\* v = Variable(value=val)
CreateLeaf(max, c, val) ==
    /\ n < max
    /\ LET st == Variable__init__(Store, c, Some(val), TRUE)
       IN  /\ Commit(st)
           /\ Keep(n + 1)
           /\ last' = Call("Variable", n + 1, <<>>, Returned(None), st)

\* v = DistanceVariable(mesh=m, value=val)
CreateDistance(max, m, val) ==
    /\ n < max
    /\ LET st == DistanceVariable__init__(Store, m, Some(val))
       IN  /\ Commit(st)
           /\ Keep(n + 1)
           /\ last' = Call("DistanceVariable", n + 1, <<m>>, Returned(None), st)

\* i.calcDistanceFunction(), the library returning d
CalcDistanceFunction(i, d) ==
    /\ Usable(i)
    /\ cls[i] = "DistanceVariable"
    /\ \E r \in {calcDistanceFunction(Store, i, d)} :
           /\ Commit(r.st)
           /\ UNCHANGED held
           /\ last' = Call("calcDistanceFunction", i, <<d>>, r.ret, r.st)

\* v = f(i), a unary operator expression
ApplyUnary(max, i, f, shape) ==
    /\ n < max
    /\ Usable(i)
    /\ LET r == _UnaryOperatorVariable(Store, i, f, shape)
       IN  /\ Commit(r.st)
           /\ Keep(r.node)
           /\ last' = [Call("unary", r.node, <<i>>, Returned(None), r.st)
                           EXCEPT !.shape = shape]

\* v = f(i, j), a binary operator expression on two Variables
ApplyBinary(max, i, f, j, shape) ==
    /\ n < max
    /\ Usable(i)
    /\ Usable(j)
    /\ LET r == _BinaryOperatorVariable(Store, i, f, [node |-> j, val |-> None],
                                        None, shape)
       IN  /\ Commit(r.st)
           /\ Keep(r.node)
           /\ last' = [Call("binary", r.node, <<i, j>>, Returned(None), r.st)
                           EXCEPT !.shape = shape]

\* v = f(i, x), a binary operator expression on a Variable and a number
ApplyBinaryConstant(max, i, f, x) ==
    /\ n + 1 < max
    /\ Usable(i)
    /\ LET r == _BinaryOperatorVariable(Store, i, f,
                                        [node |-> 0, val |-> Some(Scalar(x))],
                                        None, None)
       IN  /\ Commit(r.st)
           /\ Keep(r.node)
           /\ last' = Call("binary", r.node, <<i, 0>>, Returned(None), r.st)

\* v = i <f> j, written as an expression
Operator(max, i, f, j) ==
    /\ n < max
    /\ Usable(i)
    /\ Usable(j)
    /\ \E r \in {BinaryOp(Store, i, f, j)} :
           /\ Commit(r.st)
           /\ Keep(r.node)
           /\ last' = Call("operator", r.node, <<i, j, f>>,
                           IF r.node = 0 THEN Raised ELSE Returned(None), r.st)

\* v = x <f> i with x a number: the number's own method returns
\* NotImplemented, and i.__r<f>__(x) is called
ReflectedConstant(max, i, f, x) ==
    /\ n + 1 < max
    /\ Usable(i)
    /\ Reflected(f) # ""
    /\ \E r \in {_BinaryOperatorVariable(Store, i, Reflected(f),
                                         [node |-> 0, val |-> Some(Scalar(x))],
                                         None, None)} :
           /\ Commit(r.st)
           /\ Keep(r.node)
           /\ last' = Call("reflected", r.node, <<0, i, f>>, Returned(None), r.st)

\* i.setValue(x) on a variable the owner created with a value
SetValue(i, val, isNumber) ==
    /\ Usable(i)
    /\ ~IsOperator(Store, i)
    /\ cls[i] # "_Constant"
    /\ LET st == setValue(Store, i, Some(val), isNumber)
       IN  /\ Commit(st)
           /\ Keep(0)
           /\ last' = Call("setValue", i, <<val, isNumber>>, Returned(None), st)

\* i.setValue(val, where=where) on a variable the owner created
SetValueWhere(i, val, where) ==
    /\ Usable(i)
    /\ ~IsOperator(Store, i)
    /\ cls[i] # "_Constant"
    /\ \E r \in {setValue_where(Store, i, val, where)} :
           /\ Commit(r.st)
           /\ Keep(0)
           /\ last' = Call("setValueWhere", i, <<val, where>>,
                           IF r.raised THEN Raised ELSE Returned(None), r.st)

\* the owner makes an array
NewArray(max, val) ==
    /\ Len(arrays) < max
    /\ Commit([Store EXCEPT !.arrays = Append(@, val)])
    /\ Keep(0)
    /\ last' = Call("array", Len(arrays) + 1, <<>>, Returned(None), Store)

\* the owner's array[idx] = x
StoreArray(k, idx, x) ==
    /\ k \in 1..Len(arrays)
    /\ idx \in 1..Prod(arrays[k].shape)
    /\ \E st \in {ArrayStore(Store, k, idx, x)} :
           /\ Commit(st)
           /\ Keep(0)
           /\ last' = Call("arrayStore", k, <<idx, x>>, Returned(None), st)

\* v = Variable(value=array k)
CreateLeafFromArray(max, k) ==
    /\ n < max
    /\ k \in 1..Len(arrays)
    /\ \E st \in {Variable__init__array(Store, "Variable", k)} :
           /\ Commit(st)
           /\ Keep(n + 1)
           /\ last' = Call("Variable", n + 1, <<k>>, Returned(None), st)

\* i.setValue(array k)
SetValueArray(i, k) ==
    /\ Usable(i)
    /\ ~IsOperator(Store, i)
    /\ k \in 1..Len(arrays)
    /\ \E st \in {setValue_array(Store, i, k)} :
           /\ Commit(st)
           /\ Keep(0)
           /\ last' = Call("setValue", i, <<k>>, Returned(None), st)

\* i.setValue(j), j a Variable; the copy it makes is dropped at once
SetValueVariable(max, i, j) ==
    /\ n < max
    /\ Usable(i)
    /\ Usable(j)
    /\ ~IsOperator(Store, i)
    /\ \E r \in {setValue_variable(Store, i, j)} :
           /\ Commit(r.st)
           /\ Keep(0)
           /\ last' = Call("setValue", i, <<>>,
                           IF r.raised THEN Raised ELSE Returned(None), r.st)

\* i[idx] = x
SetItem(i, idx, x) ==
    /\ Usable(i)
    /\ ~IsOperator(Store, i)
    /\ \E r \in {__setitem__(Store, i, idx, x)} :
           /\ Commit(r.st)
           /\ Keep(0)
           /\ last' = Call("__setitem__", i, <<idx, x>>,
                           IF r.raised THEN Raised ELSE Returned(None), r.st)

\* i.put(idx, x)
Put(i, idx, x) ==
    /\ Usable(i)
    /\ ~IsOperator(Store, i)
    /\ \E r \in {put(Store, i, idx, x)} :
           /\ Commit(r.st)
           /\ Keep(0)
           /\ last' = Call("put", i, <<idx, x>>,
                           IF r.raised THEN Raised ELSE Returned(None), r.st)

\* e.setValue(val), e[idx] = x and e.put(idx, x) on an operator variable e:
\* the class of an operator variable is made from a Variable class, and the
\* three methods of Variable ask nothing about self
SetValueOperator(i, val) ==
    /\ Usable(i)
    /\ IsOperator(Store, i)
    /\ \E st \in {setValue(Store, i, Some(val), FALSE)} :
           /\ Commit(st)
           /\ Keep(0)
           /\ last' = Call("setValue", i, <<>>, Returned(None), st)

SetItemOperator(i, idx, x) ==
    /\ Usable(i)
    /\ IsOperator(Store, i)
    /\ \E r \in {__setitem__(Store, i, idx, x)} :
           /\ Commit(r.st)
           /\ Keep(0)
           /\ last' = Call("__setitem__", i, <<idx, x>>,
                           IF r.raised THEN Raised ELSE Returned(None), r.st)

PutOperator(i, idx, x) ==
    /\ Usable(i)
    /\ IsOperator(Store, i)
    /\ \E r \in {put(Store, i, idx, x)} :
           /\ Commit(r.st)
           /\ Keep(0)
           /\ last' = Call("put", i, <<idx, x>>,
                           IF r.raised THEN Raised ELSE Returned(None), r.st)

\* c = i.copy()
Copy(max, i) ==
    /\ n < max
    /\ Usable(i)
    /\ \E r \in {copy(Store, i)} :
           /\ Commit(r.st)
           /\ Keep(r.node)
           /\ last' = Call("copy", r.node, <<i>>,
                           IF r.node = 0 THEN Raised ELSE Returned(None), r.st)

\* i.setName(nm)
SetName(i, nm) ==
    /\ Usable(i)
    /\ Commit(setName(Store, i, nm))
    /\ Keep(0)
    /\ last' = Call("setName", i, <<nm>>, Returned(None), Store)

\* pickle.dumps(i); the owner keeps the pickle
Dumps(i) ==
    /\ Usable(i)
    /\ \E r \in {dumps(Store, i)} :
           /\ Commit([r.st EXCEPT !.pickled = IF r.raised THEN @ ELSE r.pickle])
           /\ Keep(0)
           /\ last' = Call("dumps", i, <<>>,
                           IF r.raised THEN Raised ELSE Returned(None), r.st)

\* v = pickle.loads(pickled)
Loads(max) ==
    /\ n < max
    /\ pickled # None
    /\ \E st \in {__setstate__(Store, pickled[1].cls, pickled[1].state)} :
           /\ Commit(st)
           /\ Keep(n + 1)
           /\ last' = Call("loads", n + 1, <<>>, Returned(None), st)

\* i.getValue()
GetValue(i) ==
    /\ Usable(i)
    /\ LET r == getValue(Store, i)
       IN  /\ Commit(r.st)
           /\ Keep(0)
           /\ last' = Call("getValue", i, <<>>, r.ret, r.st)

\* i.cacheMe(recursive)
CacheMe(i, recursive) ==
    /\ Usable(i)
    /\ LET st == cacheMe(Store, i, recursive)
       IN  /\ Commit(st)
           /\ Keep(0)
           /\ last' = Call("cacheMe", i, <<recursive>>, Returned(None), st)

\* i.dontCacheMe(recursive)
DontCacheMe(i, recursive) ==
    /\ Usable(i)
    /\ LET st == dontCacheMe(Store, i, recursive)
       IN  /\ Commit(st)
           /\ Keep(0)
           /\ last' = Call("dontCacheMe", i, <<recursive>>, Returned(None), st)

\* v = i.sum(axis) or v = i.max(axis)
AxisOperator(max, i, opname, axis) ==
    /\ axisVars[i][opname][axis] = 0 => n < max
    /\ Usable(i)
    /\ LET r == _axisOperator(Store, i, opname, axis)
       IN  /\ Commit(r.st)
           /\ Keep(r.node)
           /\ last' = [Call(opname, r.node, <<i>>, Returned(None), r.st)
                           EXCEPT !.shape = axis]

\* i.getSubscribedVariables(): the list is replaced and returned
GetSubscribedVariables(i) ==
    /\ Usable(i)
    /\ \E subs \in {getSubscribedVariables(Store, i)} :
           /\ Commit([Store EXCEPT !.subscribedVariables[i] = subs])
           /\ Keep(0)
           /\ last' = Call("getSubscribedVariables", i, <<subscribedVariables[i]>>,
                           Returned(subs), Store)

\* del v: the owner gives up its reference to i
Drop(i) ==
    /\ i \in held
    /\ held' = held \ {i}
    /\ last' = Call("del", i, <<>>, Returned(None), Store)
    /\ UNCHANGED <<n, cls, op, opShape, value, stale, _cached, requiredVariables,
                   subscribedVariables, axisVars, reclaimed, written, name,
                   arrays, alias, source, pickled, frames, marked,
                   _cacheAlways, _cacheNever, mesh>>

\* S and the objects, not yet freed, that refer strongly to an object of S,
\* directly or not
RECURSIVE ReferrersOf(_)
ReferrersOf(S) ==
    LET T == S \cup {j \in Nodes \ reclaimed : StrongRefs(j) \cap S # {}}
    IN  IF T = S THEN S ELSE ReferrersOf(T)

\* the garbage collector frees an object nothing reachable refers to, and
\* with it the unreachable objects that refer to it (an object outlives
\* nothing that holds a strong reference to it); the weak references to
\* them are dead from then on
Reclaim(i) ==
    /\ i \in Nodes \ reclaimed
    /\ i \notin Alive
    /\ reclaimed' = reclaimed \cup ReferrersOf({i})
    /\ last' = Call("reclaim", i, <<>>, Returned(None), Store)
    /\ UNCHANGED <<n, cls, op, opShape, value, stale, _cached, requiredVariables,
                   subscribedVariables, axisVars, held, written, name,
                   arrays, alias, source, pickled, frames, marked,
                   _cacheAlways, _cacheNever, mesh>>

-----------------------------------------------------------------------------
(* setValue one call at a time.  A frame is one loop of __markStale that   *)
(* has not returned: the variable, the list getSubscribedVariables         *)
(* returned, and the position of the loop in it.                           *)

Frame(i, subs) == [node |-> i, subs |-> subs, k |-> 1]

Top == frames[Len(frames)]

\* the stack with the loop on top moved to its next subscriber
Advanced == [frames EXCEPT ![Len(frames)].k = @ + 1]

\* _markStale that never finds the variable stale already
AlreadyStale_never(j) == FALSE

\* _markStale: "if not self.stale" fails, and the call returns at once
AlreadyStale(j) == stale[j] # 0

\* i._requires(j), called on two variables the owner holds
Requires(max, i, j) ==
    /\ Usable(i)
    /\ Usable(j)
    /\ Len(requiredVariables[i]) < max
    /\ \A k \in 1..Len(requiredVariables[i]) : requiredVariables[i][k] # j
    /\ \E st \in {_requires(Store, i, j)} :
           /\ Commit(st)
           /\ Keep(0)
           /\ last' = Call("_requires", i, <<j>>, Returned(None), st)

\* i._setValue(val), called on its own
RawSetValue(i, val, isNumber) ==
    /\ Usable(i)
    /\ \E st \in {_setValue(Store, i, Some(val), isNumber)} :
           /\ Commit([st EXCEPT !.written[i] = st.value[i]])
           /\ UNCHANGED held
           /\ last' = Call("_setValue", i, <<val, isNumber>>, Returned(None), st)

\* i._setNumericValue(val), called on its own
SetNumericValue(i, val) ==
    /\ Usable(i)
    /\ \E st \in {_setNumericValue(Store, i, val)} :
           /\ Commit([st EXCEPT !.written[i] = st.value[i]])
           /\ UNCHANGED held
           /\ last' = Call("_setNumericValue", i, <<val>>, Returned(None), st)

\* i.setValue(val) up to the loop of __markStale: the value is stored,
\* _markFresh has set stale = 0 and getSubscribedVariables has returned
SetValueEnter(i, val) ==
    /\ Usable(i)
    /\ frames = <<>>
    /\ LET st1  == _setValue(Store, i, Some(val), TRUE)
           subs == getSubscribedVariables(st1, i)
       IN  /\ CommitStore([st1 EXCEPT !.written[i] = st1.value[i],
                                      !.stale[i] = 0,
                                      !.subscribedVariables[i] = subs])
           /\ frames' = <<Frame(i, subs)>>
           /\ marked' = Zeros(n)
           /\ Keep(0)
           /\ last' = Call("_markFresh", i, <<>>, Returned(None), st1)

\* the loop on top of the stack calls _markStale on its next subscriber,
\* which is not stale: stale = 1, and its own loop of __markStale starts
MarkStaleEnter(max) ==
    /\ frames # <<>>
    /\ Top.k <= Len(Top.subs)
    /\ LET j    == Top.subs[Top.k]
           subs == getSubscribedVariables(Store, j)
       IN  /\ Resolves(Store, j)
           /\ ~AlreadyStale(j)
           /\ marked[j] < max
           /\ stale' = [stale EXCEPT ![j] = 1]
           /\ subscribedVariables' = [subscribedVariables EXCEPT ![j] = subs]
           /\ marked' = [marked EXCEPT ![j] = @ + 1]
           /\ frames' = Append(Advanced, Frame(j, subs))
           /\ last' = Call("_markStale", j, <<>>, Returned(None), Store)
           /\ UNCHANGED <<n, cls, op, opShape, value, _cached, requiredVariables,
                          axisVars, held, reclaimed, written, name, arrays,
                          alias, source, pickled,
                          _cacheAlways, _cacheNever, mesh>>

\* the next subscriber is dead, or stale already: nothing is done for it
MarkStaleSkip ==
    /\ frames # <<>>
    /\ Top.k <= Len(Top.subs)
    /\ LET j == Top.subs[Top.k]
       IN  /\ ~Resolves(Store, j) \/ AlreadyStale(j)
           /\ frames' = Advanced
           /\ last' = Call("_markStale", j, <<>>, Returned(None), Store)
           /\ UNCHANGED <<n, cls, op, opShape, value, stale, _cached,
                          requiredVariables, subscribedVariables, axisVars, held,
                          reclaimed, written, name, arrays, alias, source,
                          pickled, marked,
                          _cacheAlways, _cacheNever, mesh>>

\* the loop on top of the stack is over: __markStale returns, and with the
\* last one setValue does
MarkStaleReturn ==
    /\ frames # <<>>
    /\ Top.k > Len(Top.subs)
    /\ frames' = SubSeq(frames, 1, Len(frames) - 1)
    /\ last' = Call(IF Len(frames) = 1 THEN "setValue" ELSE "__markStale",
                    Top.node, <<>>, Returned(None), Store)
    /\ UNCHANGED <<n, cls, op, opShape, value, stale, _cached,
                   requiredVariables, subscribedVariables, axisVars, held,
                   reclaimed, written, name, arrays, alias, source,
                   pickled, marked,
                   _cacheAlways, _cacheNever, mesh>>

NoObjects ==
    /\ n = 0
    /\ cls = <<>>
    /\ op = <<>>
    /\ opShape = <<>>
    /\ value = <<>>
    /\ stale = <<>>
    /\ _cached = <<>>
    /\ requiredVariables = <<>>
    /\ subscribedVariables = <<>>
    /\ axisVars = <<>>
    /\ held = {}
    /\ reclaimed = {}
    /\ written = <<>>
    /\ name = <<>>
    /\ arrays = <<>>
    /\ alias = <<>>
    /\ source = <<>>
    /\ pickled = <<>>
    /\ mesh = <<>>
    /\ frames = <<>>
    /\ marked = <<>>

\* the class as imported with FIPY_CACHE unset and no --cache option
Unset == _cacheAlways = FALSE /\ _cacheNever = FALSE

Init == NoObjects /\ Unset /\ last = NoCall

\* the same start in a process that has set either flag of the class
InitFlags ==
    /\ NoObjects
    /\ _cacheAlways \in BOOLEAN
    /\ _cacheNever \in BOOLEAN
    /\ last = NoCall

\* the same start with the history on: every call then records in
\* last.before the operation and the object of the call before it
InitHistory == NoObjects /\ Unset /\ last = [NoCall EXCEPT !.before = Some(<<"", 0>>)]

-----------------------------------------------------------------------------
(* SpecEngine: createLeaf, operator application, setValue and getValue on  *)
(* dimensionless scalars, every variable cached as constructed.            *)

LeafNumbers == {3}
SetNumbers == {3, 5}
OperandNumbers == {4}

NextEngine ==
    \/ \E x \in LeafNumbers : CreateLeaf(MaxNodes, "Variable", Scalar(x))
    \/ \E i \in Nodes : ApplyUnary(MaxNodes, i, "neg", None)
    \/ \E i, j \in Nodes : ApplyBinary(MaxNodes, i, "add", j, None)
    \/ \E i \in Nodes, f \in {"add", "mul"}, x \in OperandNumbers :
           ApplyBinaryConstant(MaxNodes, i, f, x)
    \/ \E i \in Nodes, x \in SetNumbers : SetValue(i, Scalar(x), TRUE)
    \/ \E i \in Nodes : GetValue(i)

SpecEngine == Init /\ [][NextEngine]_vars


(* Spec: the same with cacheMe and dontCacheMe.                            *)

Next ==
    \/ \E x \in LeafNumbers : CreateLeaf(MaxNodes, "Variable", Scalar(x))
    \/ \E i \in Nodes : ApplyUnary(MaxNodes, i, "neg", None)
    \/ \E i, j \in Nodes : ApplyBinary(MaxNodes, i, "add", j, None)
    \/ \E i \in Nodes, x \in OperandNumbers : ApplyBinaryConstant(MaxNodes, i, "add", x)
    \/ \E i \in Nodes, x \in SetNumbers : SetValue(i, Scalar(x), TRUE)
    \/ \E i \in Nodes : GetValue(i)
    \/ \E i \in Nodes, r \in BOOLEAN : CacheMe(i, r)
    \/ \E i \in Nodes, r \in BOOLEAN : DontCacheMe(i, r)

Spec == Init /\ [][Next]_vars

------------------------------------------------------------------------(* SpecFlags: the same calls, without the recursive ones, in a process     *)
(* whose _cacheAlways and _cacheNever are set or not.                      *)

NextFlags ==
    \/ \E x \in LeafNumbers : CreateLeaf(MaxNodes, "Variable", Scalar(x))
    \/ \E i \in Nodes : ApplyUnary(MaxNodes, i, "neg", None)
    \/ \E i, j \in Nodes : ApplyBinary(MaxNodes, i, "add", j, None)
    \/ \E i \in Nodes : SetValue(i, Scalar(5), TRUE)
    \/ \E i \in Nodes : GetValue(i)
    \/ \E i \in Nodes : CacheMe(i, FALSE)
    \/ \E i \in Nodes : DontCacheMe(i, FALSE)

SpecFlags == InitFlags /\ [][NextFlags]_vars

-----------------------------------------------------------------------------
(* SpecShared: an owner that builds, in this order,                        *)
(*     w = Variable(3); a = Variable(3); u = -w; x = a + u; y = x + u      *)
(* and evaluates, sets values and switches caching off along the way.  The *)
(* operand u is shared by x and y, and y evaluates x before u.             *)

SharedNodes == 5

NextShared ==
    \/ n < 2 /\ CreateLeaf(SharedNodes, "Variable", Scalar(3))
    \/ n = 2 /\ ApplyUnary(SharedNodes, 1, "neg", None)
    \/ n = 3 /\ ApplyBinary(SharedNodes, 2, "add", 3, None)
    \/ n = 4 /\ ApplyBinary(SharedNodes, 4, "add", 3, None)
    \/ \E i \in Nodes, x \in SetNumbers : SetValue(i, Scalar(x), TRUE)
    \/ \E i \in Nodes : GetValue(i)
    \/ \E i \in Nodes : DontCacheMe(i, FALSE)

SpecShared == Init /\ [][NextShared]_vars

(* SpecHistory: the same five variables, every one cached as constructed,  *)
(* with the call before the last one recorded.                             *)

NextHistory ==
    \/ n < 2 /\ CreateLeaf(SharedNodes, "Variable", Scalar(3))
    \/ n = 2 /\ ApplyUnary(SharedNodes, 1, "neg", None)
    \/ n = 3 /\ ApplyBinary(SharedNodes, 2, "add", 3, None)
    \/ n = 4 /\ ApplyBinary(SharedNodes, 4, "add", 3, None)
    \/ \E i \in Nodes, x \in SetNumbers : SetValue(i, Scalar(x), TRUE)
    \/ \E i \in Nodes : GetValue(i)

SpecHistory == InitHistory /\ [][NextHistory]_vars

-----------------------------------------------------------------------------
(* SpecResolve: binary operators on variables of several shapes, units and *)
(* classes, with and without an opShape, and their evaluation.             *)

Metre == <<1, 0>>
Second == <<0, 1>>

ResolveLeaves ==
    {[cls |-> "Variable",     val |-> Scalar(3)],
     [cls |-> "Variable",     val |-> Full(<<3>>, 1, _unity)],
     [cls |-> "Variable",     val |-> Full(<<4>>, 1, _unity)],
     [cls |-> "Variable",     val |-> Full(<<>>, 2, Metre)],
     [cls |-> "Variable",     val |-> Full(<<>>, 2, Second)],
     [cls |-> "CellVariable", val |-> Full(<<3>>, 1, _unity)],
     [cls |-> "FaceVariable", val |-> Full(<<3>>, 1, _unity)]}

ResolveShapes == {None, Some(<<3>>)}

NextResolve ==
    \/ \E l \in ResolveLeaves : CreateLeaf(MaxNodes, l.cls, l.val)
    \/ \E i, j \in Nodes, f \in {"add", "mul"}, s \in ResolveShapes :
           ApplyBinary(MaxNodes, i, f, j, s)
    \/ \E i \in Nodes : GetValue(i)
    \/ \E i \in Nodes : DontCacheMe(i, FALSE)

SpecResolve == Init /\ [][NextResolve]_vars

(* SpecOperators: expressions on Variables, mesh variables and numbers,    *)
(* a number on either side, and their evaluation.                          *)

OperatorLeaves ==
    {[cls |-> "Variable",     val |-> Scalar(3)],
     [cls |-> "CellVariable", val |-> Full(<<2>>, 1, _unity)],
     [cls |-> "FaceVariable", val |-> Full(<<2>>, 1, _unity)]}

NextOperators ==
    \/ \E l \in OperatorLeaves : CreateLeaf(MaxNodes, l.cls, l.val)
    \/ \E i \in Nodes : ApplyUnary(MaxNodes, i, "neg", None)
    \/ \E i, j \in Nodes, f \in {"add", "sub"} : Operator(MaxNodes, i, f, j)
    \/ \E i, j \in Nodes : op[i] = "" /\ op[j] = "" /\ Operator(MaxNodes, i, "mod", j)
    \/ \E i, j \in Nodes : ApplyBinary(MaxNodes, i, "sub", j, None)
    \/ \E i \in Nodes, x \in OperandNumbers : ApplyBinaryConstant(MaxNodes, i, "sub", x)
    \/ \E i \in Nodes, x \in OperandNumbers : ReflectedConstant(MaxNodes, i, "sub", x)
    \/ \E i \in Nodes : GetValue(i)

SpecOperators == Init /\ [][NextOperators]_vars

-----------------------------------------------------------------------------
(* SpecUnits: sums of scalars in m and in s, whose units setValue changes. *)

UnitLeaves == {Full(<<>>, 2, Metre), Full(<<>>, 2, Second)}
UnitValues == {Full(<<>>, 3, Metre), Full(<<>>, 3, Second)}

NextUnits ==
    \/ \E v \in UnitLeaves : CreateLeaf(MaxNodes, "Variable", v)
    \/ \E i, j \in Nodes : ApplyBinary(MaxNodes, i, "add", j, None)
    \/ \E i \in Nodes, v \in UnitValues : SetValue(i, v, FALSE)
    \/ \E i \in Nodes : GetValue(i)

SpecUnits == Init /\ [][NextUnits]_vars

-----------------------------------------------------------------------------
(* SpecGC: the owner gives up references, and the garbage collector frees  *)
(* what has become unreachable.                                            *)

GCLeaves == {Scalar(3), Array(<<2>>, <<1, 2>>, _unity)}

NextGC ==
    \/ \E v \in GCLeaves : CreateLeaf(MaxNodes, "Variable", v)
    \/ \E i \in Nodes : ApplyUnary(MaxNodes, i, "neg", None)
    \/ \E i, j \in Nodes : ApplyBinary(MaxNodes, i, "add", j, None)
    \/ \E i \in Nodes, o \in AxisOpNames : AxisOperator(MaxNodes, i, o, None)
    \/ \E i \in Nodes : SetValue(i, Scalar(5), TRUE)
    \/ \E i \in Nodes : GetValue(i)
    \/ \E i \in Nodes : Drop(i)
    \/ \E i \in Nodes : Reclaim(i)

SpecGC == Init /\ [][NextGC]_vars

(* SpecAxis: the reductions of 1-D variables, over all the elements and    *)
(* over axis 0, with setValue, getValue and dontCacheMe.                   *)

AxisLeaf == Array(<<2>>, <<1, 2>>, _unity)
AxisValue == Array(<<2>>, <<4, 3>>, _unity)

NextAxis ==
    \/ CreateLeaf(MaxNodes, "Variable", AxisLeaf)
    \/ \E i \in Nodes, o \in AxisOpNames, axis \in Axes :
           op[i] = "" /\ AxisOperator(MaxNodes, i, o, axis)
    \/ \E i \in Nodes : SetValue(i, AxisValue, FALSE)
    \/ \E i \in Nodes : GetValue(i)
    \/ \E i \in Nodes : DontCacheMe(i, FALSE)

SpecAxis == Init /\ [][NextAxis]_vars

(* SpecResize: setValue of numbers and of arrays on scalars and on arrays  *)
(* of several shapes, in metres too, with dontCacheMe.                     *)

ResizeLeaves ==
    {Scalar(3), Array(<<2>>, <<1, 2>>, _unity), Array(<<3>>, <<1, 2, 3>>, Metre),
     Array(<<1>>, <<7>>, _unity)}

ResizeNodes == 2

NextResize ==
    \/ \E v \in ResizeLeaves : CreateLeaf(ResizeNodes, "Variable", v)
    \/ \E i \in Nodes : ApplyUnary(ResizeNodes, i, "neg", None)
    \/ \E i \in Nodes, x \in SetNumbers : SetValue(i, Scalar(x), TRUE)
    \/ \E i \in Nodes : SetValue(i, AxisValue, FALSE)
    \/ \E i \in Nodes : GetValue(i)
    \/ \E i \in Nodes : DontCacheMe(i, FALSE)

SpecResize == Init /\ [][NextResize]_vars

(* SpecSubscribers: the same owner and collector, and the owner reads the   *)
(* subscribers of its variables.                                           *)

NextSubscribers ==
    \/ CreateLeaf(MaxNodes, "Variable", Scalar(3))
    \/ \E i \in Nodes : ApplyUnary(MaxNodes, i, "neg", None)
    \/ \E i, j \in Nodes : ApplyBinary(MaxNodes, i, "add", j, None)
    \/ \E i \in Nodes : SetValue(i, Scalar(5), TRUE)
    \/ \E i \in Nodes : GetSubscribedVariables(i)
    \/ \E i \in Nodes : Drop(i)
    \/ \E i \in Nodes : Reclaim(i)

SpecSubscribers == Init /\ [][NextSubscribers]_vars

-----------------------------------------------------------------------------
(* SpecMask: setValue with a mask, on arrays and their dependents.         *)

MaskLeaves == {Scalar(3), Array(<<2>>, <<1, 2>>, _unity)}
MaskValues == {Scalar(5), Array(<<3>>, <<4, 5, 6>>, _unity)}
Masks == {Array(<<2>>, <<1, 0>>, _unity), Array(<<1>>, <<1>>, _unity),
          Array(<<3>>, <<1, 0, 1>>, _unity)}

NextMask ==
    \/ \E v \in MaskLeaves : CreateLeaf(MaxNodes, "Variable", v)
    \/ \E i \in Nodes : ApplyUnary(MaxNodes, i, "neg", None)
    \/ \E i \in Nodes, v \in MaskValues, w \in Masks : SetValueWhere(i, v, w)
    \/ \E i \in Nodes : GetValue(i)

SpecMask == Init /\ [][NextMask]_vars

-----------------------------------------------------------------------------
(* SpecAlias: arrays of the owner, Variables made from them or set to them, *)
(* writes in place on either side, and copies.                              *)

AliasArrays == {Array(<<2>>, <<1, 2>>, _unity)}
AliasLeaves == {Array(<<2>>, <<3, 4>>, _unity)}
AliasMask == Array(<<2>>, <<1, 0>>, _unity)
Stored == {9}

NextAlias ==
    \/ \E v \in AliasArrays : NewArray(MaxArrays, v)
    \/ \E k \in 1..MaxArrays, x \in Stored : StoreArray(k, 2, x)
    \/ \E v \in AliasLeaves : CreateLeaf(MaxNodes, "Variable", v)
    \/ \E k \in 1..MaxArrays : CreateLeafFromArray(MaxNodes, k)
    \/ \E i \in Nodes : ApplyUnary(MaxNodes, i, "neg", None)
    \/ \E i \in Nodes, k \in 1..MaxArrays : SetValueArray(i, k)
    \/ \E i, j \in Nodes : SetValueVariable(MaxNodes, i, j)
    \/ \E i \in Nodes : SetValueWhere(i, Scalar(5), AliasMask)
    \/ \E i \in Nodes, x \in Stored : SetItem(i, 1, x)
    \/ \E i \in Nodes, x \in Stored : Put(i, 2, x)
    \/ \E i \in Nodes : Copy(MaxNodes, i)

SpecAlias == Init /\ [][NextAlias]_vars

(* SpecMutate: setValue on leaves, and setValue, element assignment and put *)
(* on operator variables, every variable cached as constructed.            *)

MutateValue == Array(<<2>>, <<7, 8>>, _unity)

NextMutate ==
    \/ \E v \in AliasLeaves : CreateLeaf(MaxNodes, "Variable", v)
    \/ \E i \in Nodes : ApplyUnary(MaxNodes, i, "neg", None)
    \/ \E i \in Nodes : GetValue(i)
    \/ \E i \in Nodes : SetValue(i, MutateValue, FALSE)
    \/ \E i \in Nodes : SetValueOperator(i, MutateValue)
    \/ \E i \in Nodes, x \in Stored : SetItemOperator(i, 1, x)
    \/ \E i \in Nodes, x \in Stored : PutOperator(i, 2, x)

SpecMutate == Init /\ [][NextMutate]_vars

-----------------------------------------------------------------------------
(* SpecCycle: variables that require one another through _requires called  *)
(* on them directly, and setValue one call of _markStale at a time.  The    *)
(* calls of one setValue are nested calls of one thread: a call that can    *)
(* go on does.                                                             *)

MaxMarks == 2
MaxRequired == 1

Propagate == MarkStaleEnter(MaxMarks) \/ MarkStaleSkip \/ MarkStaleReturn

NextCycle ==
    \/ frames = <<>> /\ CreateLeaf(MaxNodes, "Variable", Scalar(3))
    \/ frames = <<>> /\ \E i, j \in Nodes : Requires(MaxRequired, i, j)
    \/ \E i \in Nodes : SetValueEnter(i, Scalar(5))
    \/ MarkStaleEnter(MaxMarks)
    \/ MarkStaleSkip
    \/ MarkStaleReturn

SpecCycle == Init /\ [][NextCycle]_vars /\ WF_vars(Propagate)

-----------------------------------------------------------------------------
(* SpecCollect: an owner that builds, in this order,                       *)
(*     w = Variable(3); a = Variable(3); u = -w; x = a + u; y = x + u      *)
(* and then dependents of a, gives up references, evaluates and switches   *)
(* caching off between calls of setValue; the garbage collector runs at    *)
(* any time, between two calls of _markStale of a running setValue too.    *)

CollectNodes == 6

NextCollect ==
    \/ frames = <<>> /\ n < 2 /\ CreateLeaf(CollectNodes, "Variable", Scalar(3))
    \/ frames = <<>> /\ n = 2 /\ ApplyUnary(CollectNodes, 1, "neg", None)
    \/ frames = <<>> /\ n = 3 /\ ApplyBinary(CollectNodes, 2, "add", 3, None)
    \/ frames = <<>> /\ n = 4 /\ ApplyBinary(CollectNodes, 4, "add", 3, None)
    \/ frames = <<>> /\ n > 4 /\ ApplyUnary(CollectNodes, 2, "neg", None)
    \/ frames = <<>> /\ \E i \in Nodes \ 1..4 : GetValue(i)
    \/ frames = <<>> /\ DontCacheMe(3, FALSE)
    \/ frames = <<>> /\ \E i \in Nodes \ 1..3 : Drop(i)
    \/ \E i \in Nodes : Reclaim(i)
    \/ SetValueEnter(2, Scalar(5))
    \/ MarkStaleEnter(MaxMarks)
    \/ MarkStaleSkip
    \/ MarkStaleReturn

SpecCollect == Init /\ [][NextCollect]_vars /\ WF_vars(Propagate)

-----------------------------------------------------------------------------
(* SpecDistance: an owner that builds, in this order,                      *)
(*     w = Variable(3); a = DistanceVariable(mesh, (-3, 5)); u = -w;       *)
(*     x = a + u; y = x + u                                                *)
(* on a mesh of any kind, then evaluates, switches the caching of u off    *)
(* and calls a.calcDistanceFunction().                                     *)

DistanceNodes == 5

DistanceLeaf == Array(<<2>>, <<0 - 3, 5>>, _unity)
DistanceValues == {Array(<<2>>, <<0 - 1, 1>>, _unity)}

NextDistance ==
    \/ n = 0 /\ CreateLeaf(DistanceNodes, "Variable", Scalar(3))
    \/ n = 1 /\ \E m \in MeshKinds : CreateDistance(DistanceNodes, m, DistanceLeaf)
    \/ n = 2 /\ ApplyUnary(DistanceNodes, 1, "neg", None)
    \/ n = 3 /\ ApplyBinary(DistanceNodes, 2, "add", 3, None)
    \/ n = 4 /\ ApplyBinary(DistanceNodes, 4, "add", 3, None)
    \/ \E i \in Nodes : GetValue(i)
    \/ DontCacheMe(3, FALSE)
    \/ \E d \in DistanceValues : CalcDistanceFunction(2, d)

SpecDistance == Init /\ [][NextDistance]_vars

-----------------------------------------------------------------------------
(* SpecRaw: Variables with and without units and their negations, written  *)
(* through setValue and through _setValue and _setNumericValue directly.   *)

RawLeaves == {Scalar(3), Full(<<>>, 2, Metre)}
RawValues == {Scalar(5)}

NextRaw ==
    \/ \E v \in RawLeaves : CreateLeaf(MaxNodes, "Variable", v)
    \/ \E i \in Nodes : ApplyUnary(MaxNodes, i, "neg", None)
    \/ \E i \in Nodes, v \in RawValues : SetValue(i, v, FALSE)
    \/ \E i \in Nodes, v \in RawValues : RawSetValue(i, v, TRUE)
    \/ \E i \in Nodes, v \in RawValues : SetNumericValue(i, v)
    \/ \E i \in Nodes : GetValue(i)

SpecRaw == Init /\ [][NextRaw]_vars

-----------------------------------------------------------------------------
(* SpecPickle: named Variables with and without units, sums of them,        *)
(* pickled and restored.                                                    *)

PickleLeaves == {Scalar(3), Full(<<>>, 2, Metre)}
PickleValues == {Scalar(5)}
Names == {"a"}

NextPickle ==
    \/ \E v \in PickleLeaves : CreateLeaf(MaxNodes, "Variable", v)
    \/ \E i, j \in Nodes : ApplyBinary(MaxNodes, i, "add", j, None)
    \/ \E i \in Nodes, v \in PickleValues : SetValue(i, v, FALSE)
    \/ \E i \in Nodes, nm \in Names : SetName(i, nm)
    \/ \E i \in Nodes : Dumps(i)
    \/ Loads(MaxNodes)

SpecPickle == Init /\ [][NextPickle]_vars

-----------------------------------------------------------------------------
(* The reference the claims compare with.                                  *)

\* eager recomputation of node i from the values last given to the leaves
RECURSIVE Ref(_)
Ref(i) ==
    IF op[i] = "" THEN Returned(written[i])
    ELSE LET rs == [k \in 1..Len(requiredVariables[i]) |->
                        Ref(requiredVariables[i][k])]
         IN  IF \E k \in 1..Len(rs) : rs[k].raised THEN Raised
             ELSE IF Len(rs) = 1 THEN applyUnaryFn(op[i], rs[1].val)
             ELSE applyBinaryFn(op[i], rs[1].val, rs[2].val)

Range(seq) == {seq[k] : k \in 1..Len(seq)}

\* the nodes reachable from i through subscribedVariables (requiredBy) edges
RECURSIVE Dependents(_)
Dependents(i) ==
    Range(subscribedVariables[i])
        \cup UNION {Dependents(j) : j \in Range(subscribedVariables[i])}

\* the nodes i depends on, through requiredVariables edges
RECURSIVE Operands(_)
Operands(i) ==
    Range(requiredVariables[i])
        \cup UNION {Operands(j) : j \in Range(requiredVariables[i])}

Leaves == {i \in Nodes : op[i] = ""}

-----------------------------------------------------------------------------
\* C2: when setValue(leaf, v) has returned, every node reachable from the
\* leaf through requiredBy (subscribedVariables) edges is stale.
C2_PropagationComplete ==
    last.op = "setValue" => \A j \in Dependents(last.node) : stale[j] = 1

\* C3: a node that is fresh and cached and holds a value holds the value of
\* its function over the current values of the leaves.
C3_CacheCoherent ==
    \A i \in Nodes :
        (stale[i] = 0 /\ _isCached(Store, i) /\ value[i] # None)
            => Returned(value[i]) = Ref(i)

-----------------------------------------------------------------------------
\* C1: every getValue returns the value of eager recomputation from the
\* current values of the leaves, and leaves the node fresh (a = leaf(3),
\* b = a + 4 evaluates to 7, and to 9 once a is set to 5).
C1_EvaluateIsReference ==
    last.op = "getValue"
        => /\ last.ret = Ref(last.node)
           /\ stale[last.node] = 0

\* a + 4 has been evaluated to 9, after a was set to 5
C1_Witness ==
    /\ last.op = "getValue"
    /\ op[last.node] = "add"
    /\ last.wasStale = 1
    /\ written[requiredVariables[last.node][1]] = Some(Scalar(5))
    /\ value[requiredVariables[last.node][2]] = Some(Scalar(4))
    /\ last.ret = Returned(Some(Scalar(9)))
    /\ stale[last.node] = 0

\* C4: a fresh node evaluated twice in a row returns the same value both
\* times and is fresh after each call.
C4_IdempotentEvaluation ==
    \A i \in Nodes :
        stale[i] = 0 =>
            LET r1 == getValue(Store, i)
                r2 == getValue(r1.st, i)
            IN  /\ r1.ret = r2.ret
                /\ r1.st.stale[i] = 0
                /\ r2.st.stale[i] = 0

\* C5: getValue of a leaf returns the value last written to it, and the
\* leaf still holds that value afterwards.
C5_LeafKeepsValue ==
    (last.op = "getValue" /\ op[last.node] = "")
        => /\ last.ret = Returned(written[last.node])
           /\ value[last.node] = written[last.node]

\* C6: in every call, a node whose caching is disabled is recomputed once
\* for each getValue made on it.
C6_UncachedRecomputes ==
    \A i \in 1..Len(last.calls) :
        (i <= n /\ ~_cached[i]) => last.calcs[i] = last.calls[i]

\* an operator node with caching disabled, fresh from its previous
\* evaluation, has been evaluated again and recomputed
C6_Witness ==
    /\ last.op = "getValue"
    /\ op[last.node] # ""
    /\ ~_cached[last.node]
    /\ last.wasStale = 0
    /\ last.calls[last.node] = 1
    /\ last.calcs[last.node] = 1

\* C7: constructing an operator variable changes neither the value nor the
\* stale flag of any variable that existed before.
C7_LazyConstruction ==
    [][(last'.op \in {"unary", "binary"})
          => \A i \in Nodes : value'[i] = value[i] /\ stale'[i] = stale[i]]_vars

-----------------------------------------------------------------------------
(* Shapes, classes and units as the claims state them.                     *)

\* dimension d of shape s counted from the right, 1 where s has none
DimFromRight(s, d) == IF d <= Len(s) THEN s[Len(s) - d + 1] ELSE 1

\* right-aligned dimensions are equal, or one of them is 1 or absent
Compatible(s1, s2) ==
    \A d \in 1..Max(Len(s1), Len(s2)) :
        \/ DimFromRight(s1, d) = DimFromRight(s2, d)
        \/ DimFromRight(s1, d) = 1
        \/ DimFromRight(s2, d) = 1

\* the broadcast shape of two compatible shapes
Broadcast(s1, s2) ==
    LET r == Max(Len(s1), Len(s2))
    IN  [d \in 1..r |-> Max(DimFromRight(s1, r - d + 1), DimFromRight(s2, r - d + 1))]

\* the operands' classes have a result class: other is a constant, or self
\* is of other's class or of a class derived from it
ClassesCombine(c1, c2) ==
    \/ c2 = "_Constant"
    \/ c2 \notin {"CellVariable", "FaceVariable"}
    \/ c1 = c2

\* the unit of node i by eager recomputation
UnitOf(i) == _extractUnit(Ref(i).val)

\* node k adds or subtracts two operands whose units differ
UnitMismatched(k) ==
    /\ op[k] \in {"add", "sub"}
    /\ LET a == requiredVariables[k][1]
           b == requiredVariables[k][2]
       IN  /\ ~Ref(a).raised
           /\ ~Ref(b).raised
           /\ UnitOf(a) # UnitOf(b)

-----------------------------------------------------------------------------
\* C11: a getValue whose recomputation raises hands the error to the caller,
\* leaves the value of the node as it was and the node stale; a getValue
\* made once the operands are right returns the recomputed value and
\* leaves the node fresh.
C11_FailedEvaluationNotCached ==
    [][last'.op = "getValue" =>
          /\ last'.ret = Ref(last'.node)
          /\ last'.ret.raised =>
                (stale'[last'.node] = 1 /\ value'[last'.node] = value[last'.node])
          /\ ~last'.ret.raised => stale'[last'.node] = 0]_vars

\* the getValue of a sum of 2 m and 2 s has raised, the sum is stale and
\* holds no value; once its second operand is set to 3 m, its getValue
\* returns 5 m
C11_Witness ==
    /\ last.op = "getValue"
    /\ op[last.node] = "add"
    /\ last.ret.raised
    /\ stale[last.node] = 1
    /\ value[last.node] = None
    /\ written[requiredVariables[last.node][1]] = Some(Full(<<>>, 2, Metre))
    /\ written[requiredVariables[last.node][2]] = Some(Full(<<>>, 2, Second))
    /\ LET b == requiredVariables[last.node][2]
           r == getValue(setValue(Store, b, Some(Full(<<>>, 3, Metre)), FALSE),
                         last.node)
       IN  /\ r.ret = Returned(Some(Full(<<>>, 5, Metre)))
           /\ r.st.stale[last.node] = 0

-----------------------------------------------------------------------------
(* Ownership as the claims state it.                                       *)

\* the objects reached from S through requires lists alone
RECURSIVE RequiredFrom(_)
RequiredFrom(S) ==
    LET T == S \cup UNION {Range(requiredVariables[i]) : i \in S}
    IN  IF T = S THEN S ELSE RequiredFrom(T)

\* liveDependents(a): the subscribers of a whose weak reference resolves
liveDependents(a) == Range(getSubscribedVariables(Store, a))

\* C12: an operator variable that its owner has dropped, and that no
\* variable the owner still uses requires, is unreachable (its operands hold
\* no strong reference to it), and once it is garbage collected it is not
\* among the live dependents of any variable.
C12_DroppedIsReclaimable ==
    /\ \A e \in Nodes \ reclaimed :
          (op[e] # "" /\ e \notin RequiredFrom(held)) => e \notin Alive
    /\ \A a \in Nodes \ reclaimed : liveDependents(a) \cap reclaimed = {}

\* C13: between objects that are not garbage collected, B is in the
\* requires list of A exactly when A is among the subscribers of B, and no
\* operation removes such an edge.
C13_EdgeSymmetry ==
    [][/\ \A A, B \in (1..n') \ reclaimed' :
             (B \in Range(requiredVariables'[A]))
                 <=> (A \in Range(subscribedVariables'[B]))
       /\ \A A, B \in Nodes \ reclaimed' :
             (B \in Range(requiredVariables[A]))
                 => /\ B \in Range(requiredVariables'[A])
                    /\ A \in Range(subscribedVariables'[B])]_vars

\* an operand whose list of subscribers has been compacted after one of
\* its two dependents was garbage collected: the other is still there
C13_Witness ==
    \E a \in Nodes \ reclaimed : \E d, e \in Nodes :
        /\ d \in reclaimed
        /\ e \notin reclaimed
        /\ a \in Range(requiredVariables[d])
        /\ a \in Range(requiredVariables[e])
        /\ d \notin Range(subscribedVariables[a])
        /\ e \in Range(subscribedVariables[a])

-----------------------------------------------------------------------------
\* element k of array a seen through broadcasting to shape r
Elem(a, r, k) == a.data[OperandIndex(r, a.shape, k)]

\* C14: setValue with a mask stores the new value in the elements the mask
\* selects and the prior value in all the others, leaves the variable fresh
\* and every dependent stale; it fails when the value does not fit the
\* shape of the mask (or the mask does not broadcast with the variable),
\* and then the value of the variable is unchanged.
C14_MaskedSetValue ==
    [][last'.op = "setValueWhere" =>
          LET i   == last'.node
              v   == last'.args[1]
              m   == last'.args[2]
              cur == value[i][1]
              fits == /\ Compatible(m.shape, v.shape)
                      /\ Broadcast(m.shape, v.shape) = m.shape
                      /\ Compatible(m.shape, cur.shape)
          IN  /\ last'.ret.raised <=> ~fits
              /\ ~fits => value'[i] = value[i]
              /\ fits =>
                   LET r == Broadcast(m.shape, cur.shape)
                   IN  /\ value'[i][1].shape = r
                       /\ \A k \in 1..Prod(r) :
                             value'[i][1].data[k] =
                                 IF Elem(m, r, k) # 0 THEN Elem(v, r, k)
                                 ELSE Elem(cur, r, k)
                       /\ stale'[i] = 0
                       /\ \A d \in Dependents(i) : stale'[d] = 1]_vars

\* a = (1, 2) with a fresh dependent; a.setValue(5, where=(1, 0)) has left
\* a = (5, 2) and the dependent stale
C14_Witness ==
    /\ last.op = "setValueWhere"
    /\ ~last.ret.raised
    /\ last.args[1] = Scalar(5)
    /\ last.args[2] = Array(<<2>>, <<1, 0>>, _unity)
    /\ value[last.node] = Some(Array(<<2>>, <<5, 2>>, _unity))
    /\ \E d \in Dependents(last.node) : value[d] # None /\ stale[d] = 1

-----------------------------------------------------------------------------
\* the calls that write into a Variable
Mutations == {"__setitem__", "put", "setValueWhere", "setValue"}

\* the leaves that determine the value of node j
LeavesOf(j) == {l \in {j} \cup Operands(j) : op[l] = ""}

\* C15: after a.setValue(v), v an array of the owner or another Variable
\* that does not depend on a, a write into a (element assignment, put,
\* setValue with or without a mask) leaves v as it was (for an expression:
\* the leaves it is computed from), and a write into v leaves the value of
\* a as it was.
C15_SetValueDoesNotAlias ==
    [][\A a \in Nodes :
          /\ (source[a] # <<>> /\ source[a][1] \in {"array", "node"}
                /\ last'.op = "arrayStore") => value'[a] = value[a]
          /\ (source[a] # <<>> /\ source[a][1] = "array"
                /\ last'.op \in Mutations /\ last'.node = a)
               => arrays'[source[a][2]] = arrays[source[a][2]]
          /\ (source[a] # <<>> /\ source[a][1] = "node"
                /\ a \notin LeavesOf(source[a][2]))
               => /\ (last'.op \in Mutations /\ last'.node = a)
                        => \A l \in LeavesOf(source[a][2]) : value'[l] = value[l]
                  /\ (last'.op \in Mutations /\ last'.node \in LeavesOf(source[a][2]))
                        => value'[a] = value[a]]_vars

\* a.setValue(array), then array[idx] = 9: a still holds what it was given
C15_Witness ==
    /\ last.op = "arrayStore"
    /\ \E a \in Nodes :
          /\ source[a] = <<"array", last.node>>
          /\ value[a] # None
          /\ value[a][1] # arrays[last.node]
          /\ 9 \notin Range(value[a][1].data)

\* C16: copy() returns a new leaf that holds what getValue of the original
\* returns at that moment, fresh, with no operands and no subscribers; a later setValue,
\* element assignment or put on the original, or a write into an array the
\* original was made from, leaves the copy's value and stale flag alone.
C16_CopyIsIndependent ==
    [][/\ (last'.op = "copy" /\ last'.node # 0) =>
             LET c == last'.node
                 i == last'.args[1]
             IN  /\ c = n + 1
                 /\ n' = n + 1
                 /\ op'[c] = ""
                 /\ ~getValue(Store, i).ret.raised
                 /\ value'[c] = getValue(Store, i).ret.val
                 /\ stale'[c] = 0
                 /\ requiredVariables'[c] = <<>>
                 /\ subscribedVariables'[c] = <<>>
       /\ \A c \in Nodes :
             (/\ source[c] # <<>>
              /\ source[c][1] = "copy"
              /\ \/ last'.op \in Mutations /\ last'.node = source[c][2]
                 \/ last'.op = "arrayStore")
               => /\ value'[c] = value[c]
                  /\ stale'[c] = stale[c]]_vars

\* b = a.copy(), then a[1] = 9: b holds the value a had, and is fresh
C16_Witness ==
    /\ last.op = "__setitem__"
    /\ ~last.ret.raised
    /\ \E c \in Nodes :
          /\ source[c] = <<"copy", last.node>>
          /\ value[c] # None
          /\ value[c] # value[last.node]
          /\ stale[c] = 0

\* C17: pickling a Variable records its evaluated value, the unit of that
\* value and its name, and fails when the evaluation fails; unpickling makes
\* a new leaf with that value, unit and name, fresh, with no operands and no
\* subscribers, also when the pickled Variable was an operator variable.
C17_PickleRoundTrip ==
    [][/\ last'.op = "dumps" =>
             LET i == last'.node
             IN  /\ last'.ret.raised <=> Ref(i).raised
                 /\ last'.ret.raised => pickled' = pickled
                 /\ ~last'.ret.raised =>
                       /\ pickled' # None
                       /\ pickled'[1].state.value = Ref(i).val
                       /\ pickled'[1].state.unit = _extractUnit(Ref(i).val)
                       /\ pickled'[1].state.name = name[i]
       /\ last'.op = "loads" =>
             LET c == last'.node
             IN  /\ c = n + 1
                 /\ n' = n + 1
                 /\ op'[c] = ""
                 /\ value'[c] = pickled[1].state.value
                 /\ _extractUnit(value'[c]) = pickled[1].state.unit
                 /\ name'[c] = pickled[1].state.name
                 /\ stale'[c] = 0
                 /\ requiredVariables'[c] = <<>>
                 /\ subscribedVariables'[c] = <<>>]_vars

\* the pickle of a named sum in metres has been restored as a leaf
C17_Witness ==
    /\ last.op = "loads"
    /\ op[last.node] = ""
    /\ name[last.node] = "a"
    /\ value[last.node] = Some(Full(<<>>, 4, Metre))
    /\ \E i \in Nodes : op[i] = "add" /\ name[i] = "a" /\ Ref(i) = Returned(value[last.node])

\* C18: cacheMe(recursive) and dontCacheMe(recursive) set the flag of the
\* variable and, when recursive, of every variable it depends on through
\* requiredVariables, directly or not; every other flag is left alone.
C18_RecursiveCaching ==
    [][last'.op \in {"cacheMe", "dontCacheMe"} =>
          LET i == last'.node
              S == IF last'.args[1] THEN {i} \cup Operands(i) ELSE {i}
          IN  \A j \in Nodes :
                 _cached'[j] = IF j \in S THEN last'.op = "cacheMe" ELSE _cached[j]]_vars

\* C19: what getValue returns for a variable does not depend on which
\* other variables were evaluated before it: evaluating a variable leaves
\* the result of evaluating every other variable as it was.
C19_OrderIndependent ==
    [][last'.op = "getValue" =>
          \A k \in Nodes \ {last'.node} :
             getValue(getValue(Store, last'.node).st, k).ret = getValue(Store, k).ret]_vars

\* C20: between operations, every live variable that depends, directly or
\* not, on a stale variable is stale too.
C20_DirtyClosure ==
    \A i \in Nodes \ reclaimed :
       stale[i] = 1 => \A d \in Dependents(i) \ reclaimed : stale[d] = 1

\* C21: getValue turns no variable from fresh to stale: marking the
\* evaluated variable fresh changes the stale flag of no other variable.
C21_EvaluateMarksNothingStale ==
    [][last'.op = "getValue" =>
          \A j \in Nodes : stale[j] = 0 => stale'[j] = 0]_vars

\* C22: getValue recomputes the variable exactly when it is stale, or not
\* cached, or holds no value; a recompute that returns leaves the variable
\* fresh, holding the result when it is cached and nothing otherwise;
\* without a recompute the value and the stale flag stay as they were and no
\* operand is evaluated.
C22_EvaluateUpdatesOwnCell ==
    [][last'.op = "getValue" =>
          LET i          == last'.node
              recomputed == last'.calcs[i] > 0
          IN  /\ recomputed <=> (stale[i] = 1 \/ ~_cached[i] \/ value[i] = None)
              /\ (recomputed /\ ~last'.ret.raised) =>
                    /\ value'[i] = IF _cached[i] THEN last'.ret.val ELSE None
                    /\ stale'[i] = 0
              /\ ~recomputed =>
                    /\ value'[i] = value[i]
                    /\ stale'[i] = stale[i]
                    /\ last'.ret = Returned(value[i])
                    /\ \A j \in Nodes \ {i} : last'.calls[j] = 0]_vars

\* a fresh, cached operator variable with a value has been evaluated without
\* a recompute, and an uncached one has been recomputed and left empty
C22_Witness ==
    /\ last.op = "getValue"
    /\ op[last.node] # ""
    /\ last.wasStale = 0
    /\ last.calcs[last.node] = 0
    /\ value[last.node] # None
    /\ \E j \in Nodes : op[j] # "" /\ ~_cached[j] /\ value[j] = None /\ stale[j] = 0

\* C23: with every variable cached, when d.getValue() is followed by
\* a.setValue() on a leaf a and then by d.getValue() again, the second
\* evaluation recomputes only variables that depend on a, each once; every
\* other variable keeps its cached value, and the result is the value of the
\* expression d on the new value of a.
C23_MinimalRecomputation ==
    [][(/\ last'.op = "getValue"
        /\ last.op = "setValue"
        /\ op[last.node] = ""
        /\ last.before = Some(<<"getValue", last'.node>>)
        /\ \A j \in Nodes : _cached[j])
       => LET d == last'.node
              a == last.node
          IN  /\ \A j \in Nodes :
                    IF j \in Dependents(a) \cap ({d} \cup Operands(d))
                    THEN last'.calcs[j] = 1
                    ELSE last'.calcs[j] = 0 /\ value'[j] = value[j]
              /\ last'.ret = Ref(d)]_vars

\* with w, a, u = -w, x = a + u, y = x + u: y was evaluated, a was set, and
\* y was evaluated again; x and y were recomputed, u was read from its cache
C23_Witness ==
    /\ n = 5
    /\ last.op = "getValue" /\ last.node = 5
    /\ last.before = Some(<<"setValue", 2>>)
    /\ last.calcs = <<0, 0, 0, 1, 1>>
    /\ last.calls[3] = 2

\* C24: an operator variable is stale, and holds no value, when its
\* constructor returns; a Variable constructed with a value is fresh and has
\* no required and no subscribed variables.
C24_StaleAtConstruction ==
    [][last'.node > n =>
          LET i == last'.node
          IN  /\ last'.op \in {"unary", "binary", "sumVar", "maxVar"} =>
                    /\ requiredVariables'[i] # <<>>
                    /\ stale'[i] = 1
                    /\ value'[i] = None
              /\ last'.op = "Variable" =>
                    /\ stale'[i] = 0
                    /\ value'[i] # None
                    /\ requiredVariables'[i] = <<>>
                    /\ subscribedVariables'[i] = <<>>]_vars

\* an operator variable has just been constructed on operands that were all
\* fresh, and a leaf has been constructed before it
C24_Witness ==
    /\ last.op \in {"unary", "binary"}
    /\ last.node = n
    /\ stale[n] = 1
    /\ \A j \in Range(requiredVariables[n]) : stale[j] = 0 /\ op[j] = ""

\* C25: when setValue, __setitem__ or put on a leaf has returned, the leaf is
\* fresh and every live variable that depends on it, directly or not, is
\* stale.
C25_MutationPropagates ==
    [][(/\ last'.op \in {"setValue", "setValueWhere", "__setitem__", "put"}
        /\ ~last'.ret.raised
        /\ op[last'.node] = "")
       => /\ stale'[last'.node] = 0
          /\ \A j \in Dependents(last'.node) \ reclaimed : stale'[j] = 1]_vars

\* C26: the value an operator variable holds changes only when the variable
\* is evaluated, and then to the value its evaluation stores: no setValue,
\* element assignment or put writes into it.
C26_OnlyLeavesMutated ==
    [][\A j \in Nodes :
          op[j] # "" =>
             \/ value'[j] = value[j]
             \/ /\ last'.calls[j] > 0
                /\ value'[j] = getValue(Store, j).st.value[j]]_vars

\* C27: setValue returns on every graph, one with a cycle of requires
\* included: while it runs no variable is set stale more than once and no
\* more loops of __markStale are open than there are variables, and it ends.
C27_PropagationTerminates ==
    /\ [](\A j \in Nodes : frames # <<>> => marked[j] <= 1)
    /\ [](Len(frames) <= n + 1)
    /\ (frames # <<>>) ~> (frames = <<>>)

\* a and b require each other; a.setValue has returned after stale was set
\* once on b and once on a
C27_Witness ==
    /\ last.op = "setValue"
    /\ frames = <<>>
    /\ \E a, b \in Nodes :
          /\ a # b
          /\ last.node = a
          /\ b \in Range(requiredVariables[a])
          /\ a \in Range(requiredVariables[b])
          /\ marked[a] = 1
          /\ marked[b] = 1

\* C28: the graph of requiredVariables has no cycle: every variable a
\* variable requires was constructed before it.
C28_Acyclic ==
    \A i \in Nodes :
        \A k \in 1..Len(requiredVariables[i]) : requiredVariables[i][k] < i

\* c requires b and b requires a; c was evaluated, a was set and c was
\* switched to not cached on the way
C28_Witness ==
    /\ n = 3
    /\ requiredVariables[2] = <<1>>
    /\ 2 \in Range(requiredVariables[3])
    /\ last.op = "getValue" /\ last.node = 3
    /\ last.calls[1] >= 1
    /\ ~_cached[3]
    /\ written[1] = Some(Scalar(5))

\* C29: an operator variable e made of the same operand twice (a + a) lists
\* a in both places of requiredVariables, and a has two weak references to
\* e, appended in order; setValue on a leaves e stale; and getValue of e
\* calls getValue of a once for each place and returns the operator applied
\* to the current value of a in both.
C29_DuplicateOperands ==
    [][/\ (last'.op = "binary" /\ last'.args[1] = last'.args[2]) =>
             LET a == last'.args[1]
                 e == last'.node
             IN  /\ requiredVariables'[e] = <<a, a>>
                 /\ subscribedVariables'[a] = subscribedVariables[a] \o <<e, e>>
       /\ \A e \in Nodes \ reclaimed :
             (Len(requiredVariables[e]) = 2
                 /\ requiredVariables[e][1] = requiredVariables[e][2]) =>
                LET a == requiredVariables[e][1]
                IN  /\ (last'.op = "setValue" /\ last'.node = a) => stale'[e] = 1
                    /\ (last'.op = "getValue" /\ last'.node = e) =>
                          /\ last'.ret = applyBinaryFn(op[e], Ref(a).val, Ref(a).val)
                          /\ last'.calcs[e] = 1 => last'.calls[a] = 2]_vars

\* the entries of a list of weak references that still resolve, in order
RECURSIVE LiveOnly(_)
LiveOnly(subs) ==
    IF subs = <<>> THEN <<>>
    ELSE (IF Head(subs) \in reclaimed THEN <<>> ELSE <<Head(subs)>>)
            \o LiveOnly(Tail(subs))

\* C30: getSubscribedVariables returns the weak references of the list that
\* still resolve, each as often as it is listed and in the order of the
\* list, and leaves exactly this list in subscribedVariables; the list of
\* no other variable changes.
C30_LiveDependents ==
    [][last'.op = "getSubscribedVariables" =>
          LET i == last'.node
              L == last'.ret.val
          IN  /\ L = LiveOnly(subscribedVariables[i])
              /\ subscribedVariables'[i] = L
              /\ \A k \in 1..Len(L) : L[k] \notin reclaimed
              /\ \A j \in Nodes \ reclaimed :
                    Cardinality({k \in 1..Len(L) : L[k] = j})
                      = Cardinality({k \in 1..Len(subscribedVariables[i]) :
                                        subscribedVariables[i][k] = j})
              /\ \A j \in Nodes \ {i} :
                    subscribedVariables'[j] = subscribedVariables[j]]_vars

\* the list held a dead reference before two live ones, and the call
\* returned the two live ones
C30_Witness ==
    /\ last.op = "getSubscribedVariables"
    /\ Len(last.args[1]) = 3
    /\ last.args[1][1] \in reclaimed
    /\ last.ret.val = Tail(last.args[1])
    /\ subscribedVariables[last.node] = last.ret.val

\* C31: whatever dependents of a variable have been reclaimed, before its
\* setValue or between two calls of _markStale of it, setValue returns, no
\* call of _markStale is made on a reclaimed variable, and when it has
\* returned every live variable that depends on the variable, directly or
\* not, is stale.
C31_ToleratesReclaimed ==
    [][/\ (frames # <<>> /\ frames' # <<>>)
          => \A j \in Nodes : marked'[j] > marked[j] => j \notin reclaimed
       /\ (last'.op = "setValue" /\ frames' = <<>>)
          => /\ stale'[last'.node] = 0
             /\ \A j \in Dependents(last'.node) \ reclaimed : stale'[j] = 1]_vars

\* C32: every operand in the requiredVariables of a variable that has not
\* been reclaimed has not been reclaimed either, so that an evaluation never
\* comes to a reclaimed operand.
C32_NoDanglingOperands ==
    \A i \in Nodes \ reclaimed :
        \A k \in 1..Len(requiredVariables[i]) :
            requiredVariables[i][k] \notin reclaimed

\* the owner has given up an operand of b and another variable, which was
\* reclaimed; b has been evaluated since, through the operand only b keeps
C32_Witness ==
    /\ last.op = "getValue"
    /\ ~last.ret.raised
    /\ last.ret.val # None
    /\ reclaimed # {}
    /\ op[last.node] # ""
    /\ \E k \in 1..Len(requiredVariables[last.node]) :
           /\ requiredVariables[last.node][k] \notin held
           /\ last.calls[requiredVariables[last.node][k]] > 0

\* class c1 is class c2 or derives from it; every class derives from Variable
Derives(c1, c2) == c1 = c2 \/ c2 = "Variable"

\* the class the result of an operation on operands of classes c1 and c2
\* takes, None when there is none; a constant counts as a Variable when the
\* other operand is a constant too
ResultClass(c1, c2) ==
    IF c1 = "_Constant" /\ c2 = "_Constant" THEN Some("Variable")
    ELSE IF c1 = "_Constant" THEN Some(c2)
    ELSE IF c2 = "_Constant" THEN Some(c1)
    ELSE IF Derives(c1, c2) THEN Some(c1)
    ELSE IF Derives(c2, c1) THEN Some(c2)
    ELSE None

\* C33: a binary operator on operands whose shapes broadcast gives a result
\* exactly when one operand is a constant or the class of one derives from
\* the class of the other, and the result then has the other operand's
\* class, or the more derived class, whichever side it stands on.
C33_ClassResolution ==
    [][(/\ last'.op \in {"operator", "binary", "reflected"}
        /\ last'.shape = None)
       => LET a  == last'.args[1]
              b  == last'.args[2]
              c1 == IF a = 0 THEN "_Constant" ELSE cls[a]
              c2 == IF b = 0 THEN "_Constant" ELSE cls[b]
              s1 == IF a = 0 THEN <<>> ELSE getShape(Store, a)
              s2 == IF b = 0 THEN <<>> ELSE getShape(Store, b)
          IN  Compatible(s1, s2) =>
                 /\ last'.node # 0 <=> ResultClass(c1, c2) # None
                 /\ last'.node # 0 => cls'[last'.node] = ResultClass(c1, c2)[1]]_vars

\* the first element of the value the owner gave leaf i
First(i) == written[i][1].data[1]

\* C34: a unary operator variable requires its one operand; a binary one
\* requires the receiver and then the other operand, a number on the right
\* being wrapped in a new _Constant; a reflected operator requires them in
\* the same order, the receiver first, and applies its function with the
\* arguments exchanged, so that x - a is x - a.
C34_OperandOrder ==
    [][last'.node # 0 =>
          LET k  == last'.node
              rv == requiredVariables'[k]
          IN  /\ last'.op = "unary" => rv = <<last'.args[1]>>
              /\ (last'.op = "binary" /\ last'.args[2] # 0)
                    => rv = <<last'.args[1], last'.args[2]>>
              /\ (last'.op = "binary" /\ last'.args[2] = 0)
                    => /\ rv = <<last'.args[1], n + 1>>
                       /\ k = n + 2
                       /\ cls'[n + 1] = "_Constant"
                       /\ op'[n + 1] = ""
              /\ last'.op = "operator"
                    => /\ rv \in {<<last'.args[1], last'.args[2]>>,
                                  <<last'.args[2], last'.args[1]>>}
                       /\ (op[last'.args[1]] = "" /\ op[last'.args[2]] = "")
                             => applyBinaryFn(op'[k], written'[rv[1]],
                                              written'[rv[2]]).val[1].data[1]
                                  = Fn2(last'.args[3], First(last'.args[1]),
                                        First(last'.args[2]))
              /\ last'.op = "reflected"
                    => /\ rv = <<last'.args[2], n + 1>>
                       /\ k = n + 2
                       /\ cls'[n + 1] = "_Constant"
                       /\ op[last'.args[2]] = ""
                             => applyBinaryFn(op'[k], written'[rv[1]],
                                              written'[rv[2]]).val[1].data[1]
                                  = Fn2(last'.args[3], written'[n + 1][1].data[1],
                                        First(last'.args[2]))]_vars

\* 4 - a with a holding 3: the node requires a and then the constant 4, and
\* its evaluation has returned 1
C34_Witness ==
    /\ last.op = "getValue"
    /\ last.ret = Returned(Some(Scalar(1)))
    /\ op[last.node] = "rsub"
    /\ LET rv == requiredVariables[last.node]
       IN  /\ Len(rv) = 2
           /\ cls[rv[1]] = "Variable"
           /\ written[rv[1]] = Some(Scalar(3))
           /\ cls[rv[2]] = "_Constant"
           /\ written[rv[2]] = Some(Scalar(4))

\* C35: getValue treats a variable as cached when _cacheAlways is set,
\* whatever dontCacheMe and _cacheNever say; as not cached when
\* _cacheAlways is unset and _cacheNever is set, whatever cacheMe says; and
\* by the variable's own flag when neither is set.  A variable treated as
\* cached keeps the value it returns and is not recomputed while it is fresh
\* and holds a value; one not treated as cached keeps nothing and is
\* recomputed by every getValue.
C35_EffectiveCaching ==
    [][(last'.op = "getValue" /\ ~last'.ret.raised) =>
          LET i        == last'.node
              kept     == value'[i] = last'.ret.val
              reused   == last'.calcs[i] = 0
              asCached == /\ kept
                          /\ reused <=> (stale[i] = 0 /\ value[i] # None)
              asUncached == value'[i] = None /\ ~reused
          IN  /\ _cacheAlways => asCached
              /\ (~_cacheAlways /\ _cacheNever) => asUncached
              /\ (~_cacheAlways /\ ~_cacheNever) =>
                    IF _cached[i] THEN asCached ELSE asUncached]_vars

\* with both flags of the class set, a variable that dontCacheMe was called
\* on has answered getValue from the value it kept
C35_Witness ==
    /\ _cacheAlways
    /\ _cacheNever
    /\ last.op = "getValue"
    /\ ~_cached[last.node]
    /\ op[last.node] # ""
    /\ last.calcs[last.node] = 0
    /\ last.ret.val # None
    /\ value[last.node] = last.ret.val

\* C36: sum and max called again with the same axis on the same variable
\* return the operator variable of the first call and change nothing; the
\* first call makes a new operator variable that requires the variable and
\* is added once to its subscribers; different axes and different
\* reductions have different operator variables; setValue on the variable
\* leaves every one of them stale, and the getValue of one that is stale
\* returns the reduction of the value setValue gave.
C36_AxisMemoization ==
    [][/\ last'.op \in AxisOpNames =>
             LET i    == last'.args[1]
                 axis == last'.shape
                 memo == axisVars[i][last'.op][axis]
                 k    == last'.node
             IN  /\ memo # 0 =>
                       /\ k = memo
                       /\ n' = n
                       /\ subscribedVariables' = subscribedVariables
                       /\ requiredVariables' = requiredVariables
                       /\ axisVars' = axisVars
                 /\ memo = 0 =>
                       /\ k = n + 1
                       /\ n' = n + 1
                       /\ requiredVariables'[k] = <<i>>
                       /\ subscribedVariables'[i] = Append(subscribedVariables[i], k)
                       /\ axisVars' = [axisVars EXCEPT ![i][last'.op][axis] = k] \o <<NoAxisVars>>
       /\ \A i \in 1..n' : \A o1, o2 \in AxisOpNames : \A a1, a2 \in Axes :
             (<<o1, a1>> # <<o2, a2>> /\ axisVars'[i][o1][a1] # 0)
                => axisVars'[i][o1][a1] # axisVars'[i][o2][a2]
       /\ last'.op = "setValue" =>
             \A o \in AxisOpNames : \A axis \in Axes :
                 axisVars[last'.node][o][axis] # 0
                    => stale'[axisVars[last'.node][o][axis]] = 1
       /\ (/\ last'.op = "getValue"
           /\ op[last'.node] \in AxisOps
           /\ stale[last'.node] = 1
           /\ written[requiredVariables[last'.node][1]] = Some(AxisValue))
          => last'.ret = Ref(last'.node)]_vars

\* C37: setValue of a plain number s on a leaf that holds an array of a
\* shape other than () leaves the leaf holding an array of that shape whose
\* elements all are s.
C37_ScalarKeepsShape ==
    [][(/\ last'.op = "setValue"
        /\ last'.args[2]
        /\ value[last'.node] # None
        /\ value[last'.node][1].shape # <<>>)
       => LET i   == last'.node
              s   == last'.args[1].data[1]
              new == value'[i]
          IN  /\ new # None
              /\ new[1].shape = value[i][1].shape
              /\ Len(new[1].data) = Len(value[i][1].data)
              /\ \A k \in 1..Len(new[1].data) : new[1].data[k] = s]_vars

\* a leaf that held (1, 2, 3) m holds (5, 5, 5) after setValue(5)
C37_Witness ==
    /\ last.op = "setValue"
    /\ last.args = <<Scalar(5), TRUE>>
    /\ written[last.node] = Some(Array(<<3>>, <<5, 5, 5>>, _unity))
    /\ value[last.node] = written[last.node]

-----------------------------------------------------------------------------
\* C38: a DistanceVariable is stale right after construction; when
\* calcDistanceFunction returns, the variable is fresh and every
\* unreclaimed transitive dependent is stale; when calcDistanceFunction
\* raises for an unsupported mesh, no stale flag changes.
C38_DistanceProtocol ==
    [][/\ last'.op = "DistanceVariable" => stale'[last'.node] = 1
       /\ (last'.op = "calcDistanceFunction" /\ ~last'.ret.raised)
          => /\ stale'[last'.node] = 0
             /\ \A j \in Dependents(last'.node) \ reclaimed : stale'[j] = 1
       /\ (last'.op = "calcDistanceFunction" /\ last'.ret.raised)
          => stale' = stale]_vars

-----------------------------------------------------------------------------
\* C39: _setValue and _setNumericValue change the value of the variable
\* they are called on and nothing else: no stale flag of any variable, no
\* list of operands or subscribers, no other value; the propagation is
\* setValue's, after which every dependent of the variable is stale.
C39_RawWriteFrame ==
    [][/\ last'.op \in {"_setValue", "_setNumericValue"}
          => /\ value' = [value EXCEPT ![last'.node] = value'[last'.node]]
             /\ value'[last'.node] # None
             /\ UNCHANGED <<n, cls, op, opShape, stale, _cached,
                            requiredVariables, subscribedVariables, axisVars,
                            held, reclaimed, name, arrays, alias, source,
                            pickled, frames, marked, mesh>>
       /\ last'.op = "setValue"
          => /\ stale'[last'.node] = 0
             /\ \A j \in Dependents(last'.node) : stale'[j] = 1]_vars

\* a raw write has replaced the value of a variable and left a dependent
\* fresh, holding the value computed before
C39_Witness ==
    /\ last.op \in {"_setValue", "_setNumericValue"}
    /\ value[last.node] = Some(Scalar(5))
    /\ \E j \in Dependents(last.node) :
           /\ stale[j] = 0
           /\ value[j] = Some(Scalar(0 - 3))


====
